---- MODULE Spec2Model ----
(***************************************************************************)
(* A model of the MCP endpoint of m-lally/mcp-main: the MCPServer class    *)
(* (message classification, method dispatch, registries, outbound request  *)
(* correlation, shutdown), the SchemaValidator, the error taxonomy and the *)
(* closed flag of the StdioTransport.                                      *)
(*                                                                         *)
(* One action is one macrotask of the Node event loop: the delivery of one *)
(* inbound message together with every microtask continuation it queues,   *)
(* the completion of one application handler, the firing of one timer, one *)
(* call of the public API.                                                 *)
(***************************************************************************)
EXTENDS Integers, Sequences, FiniteSets, TLC

VARIABLES
    initialized,      \* MCPServer.initialized
    tools,            \* MCPServer.tools      (a Map: insertion-ordered entries)
    resources,        \* MCPServer.resources
    prompts,          \* MCPServer.prompts
    requestId,        \* MCPServer.requestId
    pendingRequests,  \* MCPServer.pendingRequests (a Map keyed by id)
    timers,           \* the armed deadline timers of sendRequest
    waiters,          \* the promises sendRequest returned, in issue order
    inflight,         \* inbound requests whose handler has not completed yet
    closed,           \* StdioTransport.closed
    exitTimer,        \* the process.exit timer of shutdown() is armed
    exited,           \* process.exit has run
    last,             \* history: the event of the last step and what it wrote
    errorListener,    \* the application has called server.on('error', ...)
    buffer,           \* StdioTransport.buffer
    wire,             \* what the peer has written to stdin and was not read yet
    written,          \* history: the lines the peer has written, in order
    emitted,          \* history: the events the transport has emitted, in order
    issued,           \* history: the add and remove calls of the registries
    initializeHandled, \* history: an `initialize` request has been handled
    config,           \* RateLimiter.config
    requests,         \* RateLimiter.requests (a Map: key -> timestamps)
    now,              \* what Date.now() returns
    admitted,         \* history: per key, the times of every admitted call
    admittedSinceReset, \* history: the same, emptied when reset clears the key
    twin,             \* RateLimiter.requests of a limiter that gets the same calls
                      \* and never runs cleanup
    lastCheck,        \* history: the last call of the RateLimiter and its outcome
    auth              \* AuthMiddleware.config, and the last authenticate call

vars == <<initialized, tools, resources, prompts, requestId, pendingRequests,
          timers, waiters, inflight, closed, exitTimer, exited, last,
          errorListener, buffer, wire, written, emitted, issued, initializeHandled,
          config, requests, now, admitted, admittedSinceReset, twin, lastCheck, auth>>

\* the state of the server endpoint proper
serverVars == <<initialized, tools, resources, prompts, requestId, pendingRequests,
                timers, waiters, inflight, closed, exitTimer, exited, last>>

\* the reader of the transport and the byte stream of its peer
streamVars == <<errorListener, buffer, wire, written, emitted>>

\* the histories only some specifications keep
historyVars == <<issued, initializeHandled>>

\* the RateLimiter
limiterVars == <<config, requests, now, admitted, admittedSinceReset, twin, lastCheck>>

\* the middleware the endpoint itself never calls
middlewareVars == <<limiterVars, auth>>

-----------------------------------------------------------------------------
(* Bounds of the model *)

\* how many inbound requests may await their handler at the same time
MaxInflight == 2

\* how many outbound requests sendRequest issues
MaxRequests == 3

\* how many add and remove calls a registry history holds
MaxOps == 3

\* how many lines the peer writes to stdin
MaxLines == 2

\* the clock stops after this many ticks
MaxTicks == 4

\* how many calls the rate limiter admits in one run
MaxCalls == 4

-----------------------------------------------------------------------------
(* JSON values.  Every value is a record with a tag t, so that values of    *)
(* different JavaScript types stay distinct and comparable.                 *)

Undefined == [t |-> "undefined"]

Null == [t |-> "null"]

\* a JSON-RPC id keeps its wire type: the number 1 and the string "1" differ
NumId(n) == [t |-> "number", v |-> n]

StrId(n) == [t |-> "string", v |-> n]

NoId == [t |-> "undefined", v |-> 0]

IsDefined(x) == x.t # "undefined"

\* JavaScript truthiness of the values the model uses
Truthy(x) == x.t \notin {"undefined", "null"}

-----------------------------------------------------------------------------
(* Error taxonomy: errors/mcp-errors.ts *)

PARSE_ERROR == -32700

INVALID_REQUEST == -32600

METHOD_NOT_FOUND == -32601

INVALID_PARAMS == -32602

INTERNAL_ERROR == -32603

INITIALIZATION_FAILED == -32000

TOOL_EXECUTION_ERROR == -32001

RESOURCE_NOT_FOUND == -32002

PERMISSION_DENIED == -32003

RATE_LIMIT_EXCEEDED == -32004

VALIDATION_ERROR == -32005

TIMEOUT_ERROR == -32006

\* new MCPError(code, message, data)
MCPError(code, message, data) ==
    [t |-> "MCPError", code |-> code, message |-> message, data |-> data]

\* new ValidationError(message, data)
ValidationError(message, data) == MCPError(VALIDATION_ERROR, message, data)

\* new ToolExecutionError(message, data)
ToolExecutionError(message, data) == MCPError(TOOL_EXECUTION_ERROR, message, data)

\* new Error(message), a TypeError included: it is no MCPError and has no code
PlainError(message) ==
    [t |-> "Error", code |-> 0, message |-> message, data |-> Undefined]

\* MCPError.toJSON
toJSON(error) ==
    [code |-> error.code, message |-> error.message, data |-> error.data]

-----------------------------------------------------------------------------
(* Schema validation: validation/schema-validator.ts.  A schema is an      *)
(* object schema with `required` and typed `properties`; an input is the   *)
(* `arguments` value of a tools/call: absent, or an object that gives each *)
(* property a JSON type or leaves it out.                                  *)

Props == <<"a", "b">>

RECURSIVE Join(_)
\* Array.prototype.join(', ')
Join(strs) ==
    IF Len(strs) = 0 THEN ""
    ELSE IF Len(strs) = 1 THEN strs[1]
    ELSE strs[1] \o ", " \o Join(Tail(strs))

RECURSIVE SelectIdx(_, _, _)
\* the indices i of 1..n, in order, for which keep[i] holds
SelectIdx(keep, i, n) ==
    IF i > n THEN <<>>
    ELSE (IF keep[i] THEN <<i>> ELSE <<>>) \o SelectIdx(keep, i + 1, n)

\* the errors Ajv reports with allErrors: the `type` keyword of the instance
\* first; for an object the `required` keyword, then `properties`
AjvErrors(schema, input) ==
    IF input.t # "object"
    THEN << [instancePath |-> "", keyword |-> "type", message |-> "must be object"] >>
    ELSE
      LET missing == SelectIdx([i \in 1..Len(schema.required) |->
                                  input[schema.required[i]] = "absent"],
                               1, Len(schema.required))
          wrong == SelectIdx([i \in 1..Len(Props) |->
                                  /\ input[Props[i]] # "absent"
                                  /\ schema.properties[Props[i]] # "any"
                                  /\ input[Props[i]] # schema.properties[Props[i]]],
                             1, Len(Props))
      IN  [i \in 1..Len(missing) |->
             [instancePath |-> "", keyword |-> "required",
              message |-> "must have required property '"
                          \o schema.required[missing[i]] \o "'"]]
          \o
          [i \in 1..Len(wrong) |->
             [instancePath |-> "/" \o Props[wrong[i]], keyword |-> "type",
              message |-> "must be " \o schema.properties[Props[wrong[i]]]]]

\* SchemaValidator.validateToolInput: returns normally or throws a
\* ValidationError; a schema Ajv cannot compile throws one as well
validateToolInput(schema, input) ==
    IF ~schema.compiles
    THEN [t |-> "throw",
          error |-> ValidationError("Schema compilation failed",
                                    [t |-> "object", errors |-> <<>>, input |-> Undefined])]
    ELSE LET errs == AjvErrors(schema, input)
         IN IF Len(errs) > 0
            THEN [t |-> "throw",
                  error |-> ValidationError(
                     "Tool input validation failed: "
                       \o Join([i \in 1..Len(errs) |->
                                  errs[i].instancePath \o " " \o errs[i].message]),
                     [t |-> "object", errors |-> errs, input |-> input])]
            ELSE [t |-> "return", error |-> Undefined]

-----------------------------------------------------------------------------
(* A JavaScript Map: entries in insertion order, one per key *)

MapKeys(m) == {m[i].key : i \in 1..Len(m)}

MapHas(m, k) == k \in MapKeys(m)

MapGet(m, k) == m[CHOOSE i \in 1..Len(m) : m[i].key = k]

\* a set that leaves an existing key alone
MapSet_KeepsFirst(m, k, v) ==
    IF MapHas(m, k) THEN m ELSE Append(m, [key |-> k, value |-> v])

\* Map.prototype.set: an existing key keeps its place and takes the new value
MapSet(m, k, v) ==
    IF MapHas(m, k)
    THEN [i \in 1..Len(m) |-> IF m[i].key = k THEN [key |-> k, value |-> v] ELSE m[i]]
    ELSE Append(m, [key |-> k, value |-> v])

\* Map.prototype.delete
MapDelete(m, k) == SelectSeq(m, LAMBDA e : e.key # k)

\* Array.from(map.values()).map(x => x.definition)
Definitions(m) == [i \in 1..Len(m) |-> m[i].value.definition]

-----------------------------------------------------------------------------
(* Messages: types/mcp (MCPMessage), as mcp-client.ts uses them *)

StringValue(s) == [t |-> "string", s |-> s]

NumberValue(s) == [t |-> "number", s |-> s]

\* JSON.stringify(value, null, 2) of a handler's return value
JSONstringify(value) ==
    IF value.t = "string" THEN "\"" \o value.s \o "\"" ELSE value.s

\* `if (message.method)`: undefined and the empty string are falsy
MethodTruthy(method) == method.t = "string" /\ method.s # ""

\* an `arguments` value: absent, or an object over Props
NoArguments == [t |-> "undefined", a |-> "absent", b |-> "absent"]

ObjectArguments(a, b) == [t |-> "object", a |-> a, b |-> b]

\* `args || {}`
OrEmptyObject(args) == IF Truthy(args) THEN args ELSE ObjectArguments("absent", "absent")

NoParams ==
    [t |-> "undefined", name |-> "undefined", arguments |-> NoArguments,
     uri |-> "undefined", level |-> "undefined"]

Params(name, args, uri, level) ==
    [t |-> "object", name |-> name, arguments |-> args, uri |-> uri, level |-> level]

MCPMessage(id, method, params, result, error) ==
    [jsonrpc |-> "2.0", id |-> id, method |-> method, params |-> params,
     result |-> result, error |-> error]

NoMessage == MCPMessage(NoId, Undefined, NoParams, Undefined, Undefined)

\* JSON.stringify(message) in StdioTransport.send: the line written to stdout.
\* A property whose value is undefined is left out of the line.
stringify(message) ==
    [keys |-> {"jsonrpc"}
              \cup (IF IsDefined(message.id) THEN {"id"} ELSE {})
              \cup (IF IsDefined(message.method) THEN {"method"} ELSE {})
              \cup (IF IsDefined(message.params) THEN {"params"} ELSE {})
              \cup (IF IsDefined(message.result) THEN {"result"} ELSE {})
              \cup (IF IsDefined(message.error) THEN {"error"} ELSE {}),
     id |-> message.id, method |-> message.method,
     result |-> message.result, error |-> message.error]

\* sendResult with the id coerced to a number (`Number(id)`)
sendResult_NumericId(id, result) ==
    MCPMessage([id EXCEPT !.t = "number"], Undefined, Undefined, result, Undefined)

\* MCPServer.sendResult: the envelope handed to transport.send
sendResult(id, result) == MCPMessage(id, Undefined, Undefined, result, Undefined)

\* sendError with a `result: null` beside the error
sendError_WithResult(id, error) ==
    MCPMessage(id, Undefined, Undefined, Null, [t |-> "object"] @@ toJSON(error))

\* MCPServer.sendError: the envelope handed to transport.send
sendError(id, error) ==
    MCPMessage(id, Undefined, Undefined, Undefined,
               [t |-> "object"] @@ toJSON(error))

\* send without the test of `closed`
send_IgnoresClosed(isClosed, message) == << stringify(message) >>

\* StdioTransport.send: the lines one call adds to stdout; a closed transport
\* rejects and writes nothing
send(isClosed, message) == IF isClosed THEN <<>> ELSE << stringify(message) >>

-----------------------------------------------------------------------------
(* Synchronous part of the method handlers of MCPServer.  Each gives what   *)
(* the handler does before it first waits for application code:            *)
(*   return: it returns `value`;  throw: it throws `error`;                *)
(*   await:  it has called the registered handler and waits for it.        *)

Return(value) == [t |-> "return", value |-> value]

Throw(error) == [t |-> "throw", error |-> error]

Await(kind, key, args, handler, input) ==
    [t |-> "await",
     call |-> [kind |-> kind, key |-> key, args |-> args, handler |-> handler,
               input |-> input]]

\* constructor: the default serverInfo
ServerInfo == [name |-> "MCP Server", version |-> "1.0.0"]

ServerCapabilities ==
    [logging |-> {}, tools |-> {"listChanged"},
     resources |-> {"subscribe", "listChanged"}, prompts |-> {"listChanged"}]

handleInitialize(params) ==
    Return([t |-> "object", protocolVersion |-> "2024-11-05",
            capabilities |-> ServerCapabilities, serverInfo |-> ServerInfo])

handleToolsList == Return([t |-> "object", list |-> Definitions(tools)])

handleResourcesList == Return([t |-> "object", list |-> Definitions(resources)])

handlePromptsList == Return([t |-> "object", list |-> Definitions(prompts)])

\* destructuring `params` when the message has none throws a TypeError
DestructureError == PlainError("Cannot destructure property of undefined")

handleToolsCall(params) ==
    IF ~IsDefined(params) THEN Throw(DestructureError)
    ELSE IF ~MapHas(tools, params.name)
    THEN Throw(MCPError(METHOD_NOT_FOUND, "Tool not found: " \o params.name, Undefined))
    ELSE LET tool == MapGet(tools, params.name).value
             args == params.arguments
             checked == IF Truthy(tool.definition.inputSchema) /\ Truthy(args)
                        THEN validateToolInput(tool.definition.inputSchema, args)
                        ELSE [t |-> "return", error |-> Undefined]
         IN IF checked.t = "throw"
            THEN \* the catch of handleToolsCall wraps whatever the try block threw
                 Throw(ToolExecutionError(
                         "Tool execution failed: " \o checked.error.message,
                         [t |-> "object", tool |-> params.name, arguments |-> args]))
            ELSE Await("tool", params.name, args, tool.handler, OrEmptyObject(args))

handleResourcesRead(params) ==
    IF ~IsDefined(params) THEN Throw(DestructureError)
    ELSE IF ~MapHas(resources, params.uri)
    THEN Throw(MCPError(RESOURCE_NOT_FOUND, "Resource not found: " \o params.uri, Undefined))
    ELSE Await("resource", params.uri, NoArguments,
               MapGet(resources, params.uri).value.handler, NoArguments)

handlePromptsGet(params) ==
    IF ~IsDefined(params) THEN Throw(DestructureError)
    ELSE IF ~MapHas(prompts, params.name)
    THEN Throw(MCPError(METHOD_NOT_FOUND, "Prompt not found: " \o params.name, Undefined))
    ELSE Await("prompt", params.name, params.arguments,
               MapGet(prompts, params.name).value.handler,
               OrEmptyObject(params.arguments))

\* handleLoggingSetLevel: a missing params or level throws a TypeError; a known
\* level changes the log filter and an unknown one is logged, both return
\* normally (the log filter is not part of the modelled state)
handleLoggingSetLevel(params) ==
    IF ~IsDefined(params) THEN Throw(DestructureError)
    ELSE IF params.level = "undefined"
    THEN Throw(PlainError("Cannot read properties of undefined (reading 'toUpperCase')"))
    ELSE Return(Undefined)

\* the catch of handleRequest without its instanceof test: every error is
\* rewrapped as an InternalError
AsMCPError_AlwaysInternal(error) == MCPError(INTERNAL_ERROR, error.message, Undefined)

\* handleRequest, the catch: `error instanceof MCPError ? error : new MCPError(...)`
AsMCPError(error) ==
    IF error.t = "MCPError" THEN error
    ELSE MCPError(INTERNAL_ERROR, error.message, Undefined)

NoResponse == [t |-> "noresponse"]

\* handleRequest, the switch: what the method's case does before it first
\* waits for application code.  `initialized` and `logging/setLevel` return
\* from handleRequest without a response.
Dispatch(message) ==
    LET method == message.method.s
        params == message.params
    IN CASE method = "initialize" -> handleInitialize(params)
         [] method = "initialized" -> NoResponse
         [] method = "tools/list" -> handleToolsList
         [] method = "tools/call" -> handleToolsCall(params)
         [] method = "resources/list" -> handleResourcesList
         [] method = "resources/read" -> handleResourcesRead(params)
         [] method = "prompts/list" -> handlePromptsList
         [] method = "prompts/get" -> handlePromptsGet(params)
         [] method = "logging/setLevel" ->
               IF handleLoggingSetLevel(params).t = "throw"
               THEN handleLoggingSetLevel(params) ELSE NoResponse
         [] OTHER -> Throw(MCPError(METHOD_NOT_FOUND,
                                    "Method not found: " \o method, Undefined))

\* Respond with the catch of handleRequest answering whether or not there is an id
Respond_AnswersNotifications(isClosed, id, outcome) ==
    IF outcome.t = "noresponse" THEN <<>>
    ELSE IF outcome.t = "return"
    THEN (IF IsDefined(id) THEN send(isClosed, sendResult(id, outcome.value)) ELSE <<>>)
    ELSE send(isClosed, sendError(id, AsMCPError(outcome.error)))

\* handleRequest, after the switch: `if (id !== undefined) sendResult(id, result)`
\* and, in the catch, `if (id !== undefined) sendError(id, mcpError)`.  When the
\* transport is closed every send rejects and nothing is written.
Respond(isClosed, id, outcome) ==
    IF ~IsDefined(id) \/ outcome.t = "noresponse" THEN <<>>
    ELSE IF outcome.t = "return" THEN send(isClosed, sendResult(id, outcome.value))
    ELSE send(isClosed, sendError(id, AsMCPError(outcome.error)))

\* Resume without the try/catch around the registered handler: its raw error
\* reaches the catch of handleRequest
Resume_Unwrapped(call, done) ==
    IF done.ok THEN Return(done.value) ELSE Throw(PlainError(done.message))

\* the rest of handleToolsCall / handleResourcesRead / handlePromptsGet, once
\* the registered handler `call` has returned (ok) or thrown
Resume(call, done) ==
    CASE call.kind = "tool" ->
           IF done.ok
           THEN Return([t |-> "object",
                        content |-> << [type |-> "text",
                                        text |-> IF done.value.t = "string"
                                                 THEN done.value.s
                                                 ELSE JSONstringify(done.value)] >>])
           ELSE Throw(ToolExecutionError(
                        "Tool execution failed: " \o done.message,
                        [t |-> "object", tool |-> call.key, arguments |-> call.args]))
      [] call.kind = "resource" ->
           IF done.ok
           THEN Return([t |-> "object",
                        contents |-> << [uri |-> call.key,
                                         mimeType |-> IF done.mimeType # ""
                                                      THEN done.mimeType ELSE "text/plain",
                                         text |-> IF done.value.t = "string"
                                                  THEN done.value.s
                                                  ELSE JSONstringify(done.value)] >>])
           ELSE Throw(MCPError(INTERNAL_ERROR,
                               "Failed to read resource: " \o done.message,
                               [t |-> "object", uri |-> call.key]))
      [] OTHER ->
           IF done.ok
           THEN Return(done.value)
           ELSE Throw(MCPError(INTERNAL_ERROR,
                               "Prompt execution failed: " \o done.message,
                               [t |-> "object", prompt |-> call.key,
                                arguments |-> call.args]))

-----------------------------------------------------------------------------
(* Outbound requests: the promise sendRequest returns is `waiters[w]`; the *)
(* pendingRequests entry of a request holds the resolve and reject of its  *)
(* promise and its timer handle, both named by w.                          *)

\* an id generator that hands out the same id again
NextRequestId_Reused(n) == IF n = 0 THEN 1 ELSE n

\* `++this.requestId`
NextRequestId(n) == n + 1

NewWaiter(id) ==
    [id |-> id, st |-> "pending", by |-> "none", value |-> Undefined,
     from |-> NoMessage]

\* resolve(value) or reject(value) of promise w: a promise that is already
\* settled keeps its first outcome
Settle(ws, w, st, by, value, from) ==
    IF ws[w].st = "pending"
    THEN [ws EXCEPT ![w] = [id |-> @.id, st |-> st, by |-> by, value |-> value,
                            from |-> from]]
    ELSE ws

\* a lookup that compares keys by value alone, as `==` would
Lookup_ByValue(id) ==
    LET idx == {i \in 1..Len(pendingRequests) : pendingRequests[i].key.v = id.v}
    IN IF idx = {} THEN <<>> ELSE << pendingRequests[CHOOSE i \in idx : TRUE].value >>

\* `this.pendingRequests.get(message.id)`: keys are equal when type and value are
Lookup(id) ==
    IF MapHas(pendingRequests, id) THEN << MapGet(pendingRequests, id).value >> ELSE <<>>

\* the history of one step: the operation, its input message or in-flight
\* request, how the method handler ended, the lines it wrote to stdout, the
\* registered handlers it called, the waiter or in-flight index it was about,
\* and isInitialized() before the step
Event(op, message, request, outcome, wrote, invoked, n) ==
    [op |-> op, message |-> message, request |-> request, outcome |-> outcome,
     wrote |-> wrote, invoked |-> invoked, n |-> n, wasInitialized |-> initialized]

NoCall ==
    [kind |-> "none", key |-> "", args |-> NoArguments, handler |-> "",
     input |-> NoArguments]

NoRequest == [id |-> NoId, call |-> NoCall]

-----------------------------------------------------------------------------
(* handleMessage and what it calls *)

\* a response handler that forgets `clearTimeout(pending.timeout)`
handleResponse_KeepsTimer(message) ==
    LET found == Lookup(message.id)
    IN /\ IF found = <<>>
          THEN UNCHANGED <<timers, pendingRequests, waiters>>
          ELSE /\ timers' = timers
               /\ pendingRequests' = MapDelete(pendingRequests, message.id)
               /\ waiters' = Settle(waiters, found[1].waiter, "resolved", "response",
                                    message.result, message)
       /\ last' = Event("message", message, NoRequest, NoResponse, <<>>, <<>>, 0)
       /\ UNCHANGED <<initialized, tools, resources, prompts, requestId, inflight,
                      closed, exitTimer, exited>>

\* MCPServer.handleResponse
handleResponse(message) ==
    LET found == Lookup(message.id)
    IN /\ IF found = <<>>
          THEN UNCHANGED <<timers, pendingRequests, waiters>>
          ELSE /\ timers' = timers \ {found[1].timeout}
               /\ pendingRequests' = MapDelete(pendingRequests, message.id)
               /\ waiters' = Settle(waiters, found[1].waiter, "resolved", "response",
                                    message.result, message)
       /\ last' = Event("message", message, NoRequest, NoResponse, <<>>, <<>>, 0)
       /\ UNCHANGED <<initialized, tools, resources, prompts, requestId, inflight,
                      closed, exitTimer, exited>>

\* MCPServer.handleErrorResponse.  `message.error.code` of a null error throws
\* after the entry is deleted and before reject is called; handleMessage
\* catches it and answers with an InternalError.
handleErrorResponse(message) ==
    LET found == Lookup(message.id)
        throws == found # <<>> /\ message.error.t = "null"
    IN /\ IF found = <<>>
          THEN UNCHANGED <<timers, pendingRequests, waiters>>
          ELSE /\ timers' = timers \ {found[1].timeout}
               /\ pendingRequests' = MapDelete(pendingRequests, message.id)
               /\ waiters' = IF throws THEN waiters
                             ELSE Settle(waiters, found[1].waiter, "rejected",
                                         "error response",
                                         MCPError(message.error.code,
                                                  message.error.message,
                                                  message.error.data),
                                         message)
       /\ last' = Event("message", message, NoRequest, NoResponse,
                        IF throws
                        THEN send(closed, sendError(message.id,
                                   MCPError(INTERNAL_ERROR, "Internal server error",
                                            [t |-> "object",
                                             originalError |-> "Cannot read properties of null"])))
                        ELSE <<>>,
                        <<>>, 0)
       /\ UNCHANGED <<initialized, tools, resources, prompts, requestId, inflight,
                      closed, exitTimer, exited>>

\* MCPServer.handleRequest, up to the point where it waits for a registered
\* handler; handleInitialized sets the flag
handleRequest(message) ==
    LET o == Dispatch(message)
    IN /\ o.t = "await" => Len(inflight) < MaxInflight
       /\ initialized' = (initialized \/ message.method.s = "initialized")
       /\ inflight' = IF o.t = "await"
                      THEN Append(inflight, [id |-> message.id, call |-> o.call])
                      ELSE inflight
       /\ last' = Event("message", message, NoRequest, o,
                        IF o.t = "await" THEN <<>> ELSE Respond(closed, message.id, o),
                        IF o.t = "await" THEN << o.call >> ELSE <<>>, 0)
       /\ UNCHANGED <<tools, resources, prompts, requestId, pendingRequests, timers,
                      waiters, closed, exitTimer, exited>>

\* MCPServer.handleMessage: a message that is neither a response nor has a
\* method is dropped
handleMessage(message) ==
    IF IsDefined(message.id) /\ IsDefined(message.result)
    THEN handleResponse(message)
    ELSE IF IsDefined(message.id) /\ IsDefined(message.error)
    THEN handleErrorResponse(message)
    ELSE IF MethodTruthy(message.method)
    THEN handleRequest(message)
    ELSE /\ last' = Event("message", message, NoRequest, NoResponse, <<>>, <<>>, 0)
         /\ UNCHANGED <<initialized, tools, resources, prompts, requestId,
                        pendingRequests, timers, waiters, inflight, closed,
                        exitTimer, exited>>

\* a reader that takes the next line only when no handler is running
Receive_Blocking(message) ==
    /\ inflight = <<>>
    /\ ~closed
    /\ ~exited
    /\ handleMessage(message)

\* StdioTransport.handleData / processLine for one parsed line: a closed
\* transport ignores its input
Receive(message) ==
    /\ ~closed
    /\ ~exited
    /\ handleMessage(message)

\* StdioTransport.handleData on a closed transport: `if (this.closed) return`,
\* the line the peer wrote is never parsed
ReceiveClosed(message) ==
    /\ closed
    /\ ~exited
    /\ last' = Event("dropped", message, NoRequest, NoResponse, <<>>, <<>>, 0)
    /\ UNCHANGED <<initialized, tools, resources, prompts, requestId, pendingRequests,
                   timers, waiters, inflight, closed, exitTimer, exited>>

\* what a registered handler may do: return a value or throw
HandlerOutcomes(kind) ==
    CASE kind = "tool" ->
           { [ok |-> TRUE, value |-> StringValue("8"), mimeType |-> "", message |-> ""],
             [ok |-> TRUE, value |-> NumberValue("8"), mimeType |-> "", message |-> ""],
             [ok |-> FALSE, value |-> Undefined, mimeType |-> "", message |-> "boom"] }
      [] kind = "resource" ->
           { [ok |-> TRUE, value |-> StringValue("text"), mimeType |-> "", message |-> ""],
             [ok |-> TRUE, value |-> NumberValue("1"), mimeType |-> "application/json",
              message |-> ""],
             [ok |-> FALSE, value |-> Undefined, mimeType |-> "", message |-> "boom"] }
      [] OTHER ->
           { [ok |-> TRUE, value |-> [t |-> "object", messages |-> <<"hello">>],
              mimeType |-> "", message |-> ""],
             [ok |-> FALSE, value |-> Undefined, mimeType |-> "", message |-> "boom"] }

\* the handler of in-flight request i completes (`done`) and handleRequest
\* goes on after its await
HandlerDone(i) ==
    /\ ~exited
    /\ i \in 1..Len(inflight)
    /\ \E done \in HandlerOutcomes(inflight[i].call.kind) :
          last' = Event("done", NoMessage, inflight[i],
                        Resume(inflight[i].call, done),
                        Respond(closed, inflight[i].id, Resume(inflight[i].call, done)),
                        <<>>, i)
    /\ inflight' = SubSeq(inflight, 1, i - 1) \o SubSeq(inflight, i + 1, Len(inflight))
    /\ UNCHANGED <<initialized, tools, resources, prompts, requestId, pendingRequests,
                   timers, waiters, closed, exitTimer, exited>>

-----------------------------------------------------------------------------
(* Outbound requests, shutdown and the transport's end *)

\* MCPServer.sendRequest: the new promise is waiter w; a send the closed
\* transport rejects is handed to reject by `.catch(reject)`, and neither the
\* entry nor the timer is touched
sendRequest(method) ==
    LET id == NumId(NextRequestId(requestId))
        w == Len(waiters) + 1
        message == MCPMessage(id, StringValue(method), Undefined, Undefined, Undefined)
    IN /\ ~exited
       /\ Len(waiters) < MaxRequests
       /\ requestId' = NextRequestId(requestId)
       /\ timers' = timers \cup {w}
       /\ pendingRequests' = MapSet(pendingRequests, id, [waiter |-> w, timeout |-> w])
       /\ waiters' = IF closed
                     THEN Settle(Append(waiters, NewWaiter(id)), w, "rejected", "send",
                                 PlainError("Transport is closed"), NoMessage)
                     ELSE Append(waiters, NewWaiter(id))
       /\ last' = Event("sendRequest", NoMessage, NoRequest, NoResponse, send(closed, message),
                        <<>>, w)
       /\ UNCHANGED <<initialized, tools, resources, prompts, inflight, closed,
                      exitTimer, exited>>

\* the deadline timer of waiter w fires: the callback of setTimeout in
\* sendRequest, which deletes the id it closed over
Timeout(w) ==
    /\ ~exited
    /\ w \in timers
    /\ timers' = timers \ {w}
    /\ pendingRequests' = MapDelete(pendingRequests, waiters[w].id)
    /\ waiters' = Settle(waiters, w, "rejected", "timeout",
                         MCPError(TIMEOUT_ERROR, "Request timeout", Undefined),
                         NoMessage)
    /\ last' = Event("timeout", NoMessage, NoRequest, NoResponse, <<>>, <<>>, w)
    /\ UNCHANGED <<initialized, tools, resources, prompts, requestId, inflight,
                   closed, exitTimer, exited>>

\* the error shutdown() rejects the pending requests with
ShutdownError == PlainError("Server shutting down")

\* MCPServer.shutdown: clears and rejects every pending request, closes the
\* transport and arms the timer of process.exit
shutdownBody ==
    LET cancelled == {pendingRequests[i].value.waiter : i \in 1..Len(pendingRequests)}
        handles == {pendingRequests[i].value.timeout : i \in 1..Len(pendingRequests)}
    IN /\ timers' = timers \ handles
       /\ waiters' = [w \in 1..Len(waiters) |->
                        IF w \in cancelled
                        THEN Settle(waiters, w, "rejected", "shutdown", ShutdownError,
                                    NoMessage)[w]
                        ELSE waiters[w]]
       /\ pendingRequests' = <<>>
       /\ closed' = TRUE
       /\ exitTimer' = TRUE
       /\ UNCHANGED <<initialized, tools, resources, prompts, requestId, inflight,
                      exited>>

\* a call of shutdown() by the application or by a signal handler
shutdown ==
    /\ ~exited
    /\ shutdownBody
    /\ last' = Event("shutdown", NoMessage, NoRequest, NoResponse, <<>>, <<>>, 0)

\* the callback of the timer shutdown() arms: process.exit(exitCode)
ProcessExit ==
    /\ exitTimer
    /\ ~exited
    /\ exited' = TRUE
    /\ last' = Event("exit", NoMessage, NoRequest, NoResponse, <<>>, <<>>, 0)
    /\ UNCHANGED <<initialized, tools, resources, prompts, requestId, pendingRequests,
                   timers, waiters, inflight, closed, exitTimer>>

\* StdioTransport.handleEnd: stdin ended; MCPServer.handleTransportClose logs
handleEnd ==
    /\ ~exited
    /\ ~closed
    /\ closed' = TRUE
    /\ last' = Event("end", NoMessage, NoRequest, NoResponse, <<>>, <<>>, 0)
    /\ UNCHANGED <<initialized, tools, resources, prompts, requestId, pendingRequests,
                   timers, waiters, inflight, exitTimer, exited>>

-----------------------------------------------------------------------------
(* The reader of the transport: transport/stdio.ts.  Text is a sequence of  *)
(* characters; the peer's lines are the JSON texts of notifications         *)
(* {"method": ...}, lines that are no JSON, and blank lines.                *)

LF == "\n"

Quote == "\""

Backslash == "\\"

Space == " "

\* the characters String.prototype.trim removes
Whitespace == {Space, LF, "\r", "\t"}

\* String.prototype.indexOf, counting from 1: 0 when the character is absent
IndexOf(chars, c) ==
    IF \E i \in 1..Len(chars) : chars[i] = c
    THEN CHOOSE i \in 1..Len(chars) : chars[i] = c /\ \A j \in 1..(i - 1) : chars[j] # c
    ELSE 0

RECURSIVE trim(_)
\* String.prototype.trim
trim(chars) ==
    IF chars = <<>> THEN <<>>
    ELSE IF Head(chars) \in Whitespace THEN trim(Tail(chars))
    ELSE IF chars[Len(chars)] \in Whitespace THEN trim(SubSeq(chars, 1, Len(chars) - 1))
    ELSE chars

\* the escaping of JSON.stringify left out: the characters of a string are
\* written as they are
Escape_Raw(chars) == chars

RECURSIVE Escape(_)
\* JSON.stringify of the characters of a string: a line feed, a double quote
\* and a backslash are escaped
Escape(chars) ==
    IF chars = <<>> THEN <<>>
    ELSE (CASE Head(chars) = LF -> <<Backslash, "n">>
            [] Head(chars) = Quote -> <<Backslash, Quote>>
            [] Head(chars) = Backslash -> <<Backslash, Backslash>>
            [] OTHER -> <<Head(chars)>>)
         \o Escape(Tail(chars))

RECURSIVE Unescape(_)
\* JSON.parse of the body of a string: escapes are decoded; a bare double
\* quote, a bare control character and an unknown escape are syntax errors
Unescape(chars) ==
    IF chars = <<>> THEN [ok |-> TRUE, chars |-> <<>>]
    ELSE IF Head(chars) = Backslash
    THEN IF Len(chars) >= 2 /\ chars[2] \in {"n", Quote, Backslash}
         THEN LET r == Unescape(SubSeq(chars, 3, Len(chars)))
              IN [ok |-> r.ok,
                  chars |-> << IF chars[2] = "n" THEN LF ELSE chars[2] >> \o r.chars]
         ELSE [ok |-> FALSE, chars |-> <<>>]
    ELSE IF Head(chars) \in {Quote, LF, "\r", "\t"}
    THEN [ok |-> FALSE, chars |-> <<>>]
    ELSE LET r == Unescape(Tail(chars))
         IN [ok |-> r.ok, chars |-> <<Head(chars)>> \o r.chars]

\* the text of a notification up to the characters of its method name
MethodPrefix == <<"{", Quote, "m", "e", "t", "h", "o", "d", Quote, ":", Quote>>

MethodSuffix == <<Quote, "}">>

\* JSON.stringify(message) in send, for a notification {method}
JSONtext(message) == MethodPrefix \o Escape(message.method) \o MethodSuffix

\* JSON.parse(line) in processLine, for the lines the peer writes: the text of
\* a notification parses to it, anything else is a SyntaxError
JSONparse(line) ==
    LET n == Len(MethodPrefix) + Len(MethodSuffix)
        body == SubSeq(line, Len(MethodPrefix) + 1, Len(line) - Len(MethodSuffix))
    IN IF /\ Len(line) >= n
          /\ SubSeq(line, 1, Len(MethodPrefix)) = MethodPrefix
          /\ SubSeq(line, Len(line) - Len(MethodSuffix) + 1, Len(line)) = MethodSuffix
          /\ Unescape(body).ok
       THEN [ok |-> TRUE, message |-> [method |-> Unescape(body).chars]]
       ELSE [ok |-> FALSE, message |-> [method |-> <<>>]]

\* the events the transport emits
MessageEvent(message) == [type |-> "message", method |-> message.method, code |-> 0]

ErrorEvent(code) == [type |-> "error", method |-> <<>>, code |-> code]

CloseEvent == [type |-> "close", method |-> <<>>, code |-> 0]

\* a close() that emits `close` on every call
close_Unguarded(isClosed, events) == Append(events, CloseEvent)

\* StdioTransport.close, as the events it adds: `if (this.closed) return`
close(isClosed, events) == IF isClosed THEN events ELSE Append(events, CloseEvent)

\* stdin has reported a read error: a stream fails once, is destroyed, and
\* delivers nothing afterwards
StreamFailed == \E i \in 1..Len(emitted) : emitted[i] = ErrorEvent(0)

\* StdioTransport.processLine: the event it emits for a non-empty line
processLine(line) ==
    IF JSONparse(line).ok
    THEN MessageEvent(JSONparse(line).message)
    ELSE ErrorEvent(PARSE_ERROR)

RECURSIVE processBuffer(_, _)
\* StdioTransport.processBuffer: the events emitted for the complete lines of
\* buf, and what stays buffered.  MCPServer.handleTransportError re-emits an
\* error event on the server; without an `error` listener there, emit throws,
\* the loop is left and the rest of the buffer stays as it is (threw).
processBuffer(buf, listener) ==
    LET newlineIndex == IndexOf(buf, LF)
        line == trim(SubSeq(buf, 1, newlineIndex - 1))
        rest == SubSeq(buf, newlineIndex + 1, Len(buf))
    IN IF newlineIndex = 0
       THEN [buffer |-> buf, events |-> <<>>, threw |-> FALSE]
       ELSE IF line = <<>> THEN processBuffer(rest, listener)
       ELSE IF processLine(line).type = "error" /\ ~listener
       THEN [buffer |-> rest, events |-> << processLine(line) >>, threw |-> TRUE]
       ELSE LET r == processBuffer(rest, listener)
            IN [buffer |-> r.buffer, events |-> << processLine(line) >> \o r.events,
                threw |-> r.threw]

RECURSIVE Concat(_)
\* the string of a sequence of characters
Concat(chars) == IF chars = <<>> THEN "" ELSE Head(chars) \o Concat(Tail(chars))

\* the MCPMessage a message event hands to MCPServer.handleMessage
AsMCPMessage(event) ==
    MCPMessage(NoId, StringValue(Concat(event.method)), NoParams, Undefined, Undefined)

\* StdioTransport.handleData for a chunk of k characters.  A closed transport
\* drops the chunk.  Every message event runs MCPServer.handleMessage: the
\* peer's messages here are notifications of methods the server does not
\* know, which handleRequest refuses without a response and without a change
\* of state.  An error event nobody listens to ends in the uncaughtException
\* handler, which calls shutdown(1); close() then emits `close`.
handleData(k) ==
    LET r == processBuffer(buffer \o SubSeq(wire, 1, k), errorListener)
    IN /\ ~exited
       /\ ~StreamFailed
       /\ k \in 1..Len(wire)
       /\ wire' = SubSeq(wire, k + 1, Len(wire))
       /\ IF closed
          THEN UNCHANGED <<buffer, emitted, serverVars>>
          ELSE /\ \A i \in 1..Len(r.events) :
                     r.events[i].type = "message"
                     => /\ MethodTruthy(AsMCPMessage(r.events[i]).method)
                        /\ Dispatch(AsMCPMessage(r.events[i])).t = "throw"
               /\ buffer' = r.buffer
               /\ last' = Event("data", NoMessage, NoRequest, NoResponse, <<>>, <<>>,
                                Len(r.events))
               /\ IF r.threw
                  THEN /\ shutdownBody
                       /\ emitted' = emitted \o r.events \o << CloseEvent >>
                  ELSE /\ emitted' = emitted \o r.events
                       /\ UNCHANGED <<initialized, tools, resources, prompts, requestId,
                                      pendingRequests, timers, waiters, inflight, closed,
                                      exitTimer, exited>>
       /\ UNCHANGED <<errorListener, written, historyVars, middlewareVars>>

\* StdioTransport.handleError: stdin reports a read error.  The transport
\* emits `error` and does nothing else; the server re-emits it as above.
handleError ==
    /\ ~exited
    /\ ~closed
    /\ ~StreamFailed
    /\ last' = Event("error", NoMessage, NoRequest, NoResponse, <<>>, <<>>, 0)
    /\ IF errorListener
       THEN /\ emitted' = Append(emitted, ErrorEvent(0))
            /\ UNCHANGED <<initialized, tools, resources, prompts, requestId,
                           pendingRequests, timers, waiters, inflight, closed,
                           exitTimer, exited>>
       ELSE /\ shutdownBody
            /\ emitted' = emitted \o << ErrorEvent(0), CloseEvent >>
    /\ UNCHANGED <<errorListener, buffer, wire, written, historyVars, middlewareVars>>

\* the application subscribes to the server's `error` event
onError ==
    /\ ~exited
    /\ ~errorListener
    /\ errorListener' = TRUE
    /\ UNCHANGED <<serverVars, buffer, wire, written, emitted, historyVars, middlewareVars>>

\* the peer's endpoint sends a notification: send writes its JSON text and a
\* line feed
peerSend(method) ==
    /\ Len(written) < MaxLines
    /\ wire' = wire \o JSONtext([method |-> method]) \o << LF >>
    /\ written' = Append(written, [kind |-> "message", method |-> method,
                                   text |-> JSONtext([method |-> method]) \o << LF >>])
    /\ UNCHANGED <<serverVars, errorListener, buffer, emitted, historyVars, middlewareVars>>

\* a peer writes a line that send did not produce
peerWrite(kind, line) ==
    /\ Len(written) < MaxLines
    /\ wire' = wire \o line \o << LF >>
    /\ written' = Append(written, [kind |-> kind, method |-> <<>>,
                                   text |-> line \o << LF >>])
    /\ UNCHANGED <<serverVars, errorListener, buffer, emitted, historyVars, middlewareVars>>

-----------------------------------------------------------------------------
(* The registration API *)

addTool(definition, handler) ==
    /\ ~exited
    /\ tools' = MapSet(tools, definition.name,
                       [definition |-> definition, handler |-> handler])
    /\ last' = Event("addTool", NoMessage, NoRequest, NoResponse, <<>>, <<>>, 0)
    /\ UNCHANGED <<initialized, resources, prompts, requestId, pendingRequests, timers,
                   waiters, inflight, closed, exitTimer, exited>>

addResource(definition, handler) ==
    /\ ~exited
    /\ resources' = MapSet(resources, definition.uri,
                           [definition |-> definition, handler |-> handler])
    /\ last' = Event("addResource", NoMessage, NoRequest, NoResponse, <<>>, <<>>, 0)
    /\ UNCHANGED <<initialized, tools, prompts, requestId, pendingRequests, timers,
                   waiters, inflight, closed, exitTimer, exited>>

addPrompt(definition, handler) ==
    /\ ~exited
    /\ prompts' = MapSet(prompts, definition.name,
                         [definition |-> definition, handler |-> handler])
    /\ last' = Event("addPrompt", NoMessage, NoRequest, NoResponse, <<>>, <<>>, 0)
    /\ UNCHANGED <<initialized, tools, resources, requestId, pendingRequests, timers,
                   waiters, inflight, closed, exitTimer, exited>>

removeTool(name) ==
    /\ ~exited
    /\ tools' = MapDelete(tools, name)
    /\ last' = Event("removeTool", NoMessage, NoRequest, NoResponse, <<>>, <<>>, 0)
    /\ UNCHANGED <<initialized, resources, prompts, requestId, pendingRequests, timers,
                   waiters, inflight, closed, exitTimer, exited>>

removeResource(uri) ==
    /\ ~exited
    /\ resources' = MapDelete(resources, uri)
    /\ last' = Event("removeResource", NoMessage, NoRequest, NoResponse, <<>>, <<>>, 0)
    /\ UNCHANGED <<initialized, tools, prompts, requestId, pendingRequests, timers,
                   waiters, inflight, closed, exitTimer, exited>>

removePrompt(name) ==
    /\ ~exited
    /\ prompts' = MapDelete(prompts, name)
    /\ last' = Event("removePrompt", NoMessage, NoRequest, NoResponse, <<>>, <<>>, 0)
    /\ UNCHANGED <<initialized, tools, resources, requestId, pendingRequests, timers,
                   waiters, inflight, closed, exitTimer, exited>>

-----------------------------------------------------------------------------
(* Inputs *)

\* the `add` tool of the calculator example
AddSchema ==
    [t |-> "schema", compiles |-> TRUE, required |-> <<"a", "b">>,
     properties |-> [a |-> "number", b |-> "number"]]

ToolDefinitions ==
    { [name |-> "add", description |-> "Add two numbers", inputSchema |-> AddSchema] }

ResourceDefinitions == { [uri |-> "file:///r", name |-> "r"] }

PromptDefinitions == { [name |-> "math_help", description |-> "help"] }

Handlers == {"h1"}

ToolNames == {"add", "nope"}

ResourceUris == {"file:///r", "file:///nope"}

PromptNames == {"math_help", "nope"}

\* absent, {}, {a: 5}, {a: 5, b: 3}
ArgumentValues ==
    { NoArguments, ObjectArguments("absent", "absent"),
      ObjectArguments("number", "absent"), ObjectArguments("number", "number") }

\* the ids a peer sends: none, the number 1, the string "1"
Ids == {NoId, NumId(1), StrId(1)}

Request(id, method, params) ==
    MCPMessage(id, StringValue(method), params, Undefined, Undefined)

ToolsCall(id, name, args) ==
    Request(id, "tools/call", Params(name, args, "undefined", "undefined"))

\* inbound messages with a method (or with nothing at all), as notifications
\* and with a numeric id; a few of them with a string id as well
RequestMessages ==
    UNION { {Request(id, method, NoParams) :
               method \in {"initialize", "initialized", "tools/list", "tools/call",
                           "resources/list", "prompts/list", "logging/setLevel",
                           "bogus/method"}}
            \cup {MCPMessage(id, Undefined, NoParams, Undefined, Undefined)}
            \cup {ToolsCall(id, "add", args) : args \in ArgumentValues}
            \cup {ToolsCall(id, "nope", NoArguments)}
            \cup {Request(id, "resources/read", Params("undefined", NoArguments, uri, "undefined")) :
                    uri \in ResourceUris}
            \cup {Request(id, "prompts/get", Params(name, NoArguments, "undefined", "undefined")) :
                    name \in PromptNames}
            \cup {Request(id, "logging/setLevel", Params("undefined", NoArguments, "undefined", level)) :
                    level \in {"debug", "bogus"}}
          : id \in Ids \ {StrId(1)} }
    \cup { Request(StrId(1), "tools/list", NoParams),
           Request(StrId(1), "bogus/method", NoParams),
           Request(StrId(1), "initialized", NoParams),
           ToolsCall(StrId(1), "add", ObjectArguments("number", "number")) }

WireError == [t |-> "object", code |-> METHOD_NOT_FOUND, message |-> "nope", data |-> Undefined]

\* inbound responses: a result, an error, a null error, each with any id the
\* endpoint may have issued and with the string form of the first
ResponseMessages ==
    UNION { { MCPMessage(id, Undefined, NoParams, StringValue("r1"), Undefined),
              MCPMessage(id, Undefined, NoParams, StringValue("r2"), Undefined),
              MCPMessage(id, Undefined, NoParams, Undefined, WireError),
              MCPMessage(id, Undefined, NoParams, Undefined, Null) }
          : id \in {NumId(n) : n \in 1..MaxRequests} \cup {StrId(1)} }

\* a message with a method that also carries a result is taken for a response
ServerMessages ==
    RequestMessages
    \cup { MCPMessage(NumId(1), StringValue("tools/list"), NoParams, StringValue("r1"),
                      Undefined),
           MCPMessage(NumId(1), Undefined, NoParams, Undefined, WireError) }

-----------------------------------------------------------------------------
(* The rate limiter: middleware/rate-limiter.ts (unnamed/part_002).  Time is *)
(* the value of Date.now(), counted from the construction of the limiter.    *)

\* RateLimitConfig.windowMs of the limiters the model constructs
WindowMs == 1500

\* the clock advances in steps of this many milliseconds
TickMs == 500

\* the values of RateLimitConfig.maxRequests the model constructs
Limits == 0..2

\* the methods checkLimit is called with; the default keyGenerator,
\* `(method) => method`, makes them the keys
Keys == {"tools/call", "tools/list"}

keyGenerator(method) == method

Number(v) == [t |-> "number", v |-> v]

\* the number that arithmetic on `undefined` gives
NaN == [t |-> "NaN"]

\* Math.ceil(a / b) for b > 0
Ceil(a, b) == -((-a) \div b)

\* a window that still holds the timestamp at its start
InWindow_Inclusive(time, windowStart) == time >= windowStart

\* `time > windowStart`
InWindow(time, windowStart) == time > windowStart

\* `requestTimes.filter(time => time > windowStart)`
Filter(requestTimes, windowStart) ==
    SelectSeq(requestTimes, LAMBDA time : InWindow(time, windowStart))

\* `Math.ceil((requestTimes[0] + this.config.windowMs - now) / 1000)`:
\* requestTimes[0] of an empty array is undefined
RetryAfter(requestTimes, time) ==
    IF requestTimes = <<>>
    THEN NaN
    ELSE Number(Ceil(requestTimes[1] + config.windowMs - time, 1000))

NoCheck ==
    [op |-> "init", method |-> "", key |-> "", outcome |-> [t |-> "none"],
     twin |-> [t |-> "none"]]

\* the body of RateLimiter.checkLimit on the store `map`: how the call ends
\* and the store it leaves
checkLimitOn(map, method) ==
    LET key == keyGenerator(method)
        windowStart == now - config.windowMs
        requestTimes == Filter(IF MapHas(map, key) THEN MapGet(map, key).value ELSE <<>>,
                               windowStart)
    IN IF Len(requestTimes) >= config.maxRequests
       THEN [outcome |-> Throw(MCPError(RATE_LIMIT_EXCEEDED,
                                  "Rate limit exceeded",
                                  [method |-> method,
                                   limit |-> config.maxRequests,
                                   windowMs |-> config.windowMs,
                                   retryAfter |-> RetryAfter(requestTimes, now)])),
             requests |-> map]
       ELSE [outcome |-> Return(Undefined),
             requests |-> MapSet(map, key, Append(requestTimes, now))]

\* RateLimiter.checkLimit; the twin limiter, which never runs cleanup, gets
\* the same call at the same time
checkLimit(method) ==
    LET key == keyGenerator(method)
        call == checkLimitOn(requests, method)
        twinCall == checkLimitOn(twin, method)
    IN /\ requests' = call.requests
       /\ twin' = twinCall.requests
       /\ lastCheck' = [op |-> "checkLimit", method |-> method, key |-> key,
                        outcome |-> call.outcome, twin |-> twinCall.outcome]
       /\ IF call.outcome.t = "throw"
          THEN UNCHANGED <<admitted, admittedSinceReset>>
          ELSE /\ admitted' = [admitted EXCEPT ![key] = Append(@, now)]
               /\ admittedSinceReset' = [admittedSinceReset EXCEPT ![key] = Append(@, now)]
       /\ UNCHANGED <<config, now>>

\* a compaction that also drops the timestamps of the window's first tick
compact_Eager(map, windowStart) ==
    LET valid == [i \in 1..Len(map) |->
                    [key |-> map[i].key,
                     value |-> Filter(map[i].value, windowStart + TickMs)]]
    IN SelectSeq(valid, LAMBDA entry : entry.value # <<>>)

\* the loop of RateLimiter.cleanup: a key keeps the timestamps inside the
\* window and is deleted when none is left
compact(map, windowStart) ==
    LET valid == [i \in 1..Len(map) |->
                    [key |-> map[i].key,
                     value |-> Filter(map[i].value, windowStart)]]
    IN SelectSeq(valid, LAMBDA entry : entry.value # <<>>)

\* RateLimiter.cleanup, the callback of the constructor's setInterval
cleanup ==
    /\ requests' = compact(requests, now - config.windowMs)
    /\ lastCheck' = [NoCheck EXCEPT !.op = "cleanup"]
    /\ UNCHANGED <<config, now, admitted, admittedSinceReset, twin>>

\* RateLimiter.reset: `if (key)` takes the empty string for no key
reset(key) ==
    /\ IF key # ""
       THEN /\ requests' = MapDelete(requests, key)
            /\ twin' = MapDelete(twin, key)
            /\ admittedSinceReset' = [admittedSinceReset EXCEPT ![key] = <<>>]
       ELSE /\ requests' = <<>>
            /\ twin' = <<>>
            /\ admittedSinceReset' = [k \in Keys |-> <<>>]
    /\ lastCheck' = [NoCheck EXCEPT !.op = "reset", !.key = key]
    /\ UNCHANGED <<config, now, admitted>>

\* time passes
Tick ==
    /\ now < MaxTicks * TickMs
    /\ now' = now + TickMs
    /\ lastCheck' = [NoCheck EXCEPT !.op = "tick"]
    /\ UNCHANGED <<config, requests, admitted, admittedSinceReset, twin>>

\* `new RateLimiter(config)`
InitRateLimiter(limits) ==
    /\ config \in {[windowMs |-> WindowMs, maxRequests |-> limit] : limit \in limits}
    /\ requests = <<>>
    /\ twin = <<>>
    /\ now = 0
    /\ admitted = [k \in Keys |-> <<>>]
    /\ admittedSinceReset = [k \in Keys |-> <<>>]
    /\ lastCheck = NoCheck

-----------------------------------------------------------------------------
(* Authentication: middleware/auth.ts.  A string is the sequence of the     *)
(* words that `split(' ')` returns for it, so the empty string is <<"">>.   *)

String(words) == [t |-> "string", words |-> words]

\* `!authHeader`: undefined and the empty string are falsy
HeaderFalsy(authHeader) == ~IsDefined(authHeader) \/ authHeader.words = << "" >>

\* String.prototype.toLowerCase on the scheme words the model uses
toLowerCase(word) == IF word \in {"Bearer", "BEARER"} THEN "bearer" ELSE word

\* AuthMiddleware.extractToken
extractToken(authHeader) ==
    LET parts == authHeader.words
    IN IF Len(parts) = 2 /\ toLowerCase(parts[1]) = "bearer"
       THEN << parts[2] >>
       ELSE authHeader.words

\* AuthMiddleware.authenticate, with headers?.authorization as its input
authenticate(authConfig, authHeader) ==
    IF authConfig.allowAnonymous /\ HeaderFalsy(authHeader)
    THEN Return(Undefined)
    ELSE IF HeaderFalsy(authHeader)
    THEN Throw(MCPError(PERMISSION_DENIED, "Authentication required", Undefined))
    ELSE LET token == extractToken(authHeader)
         IN IF IsDefined(authConfig.customValidator)
            THEN IF token \in authConfig.customValidator.accepts
                 THEN Return(Undefined)
                 ELSE Throw(MCPError(PERMISSION_DENIED, "Invalid authentication token",
                                     Undefined))
            ELSE IF IsDefined(authConfig.apiKeys) /\ token \in authConfig.apiKeys.items
            THEN Return(Undefined)
            ELSE Throw(MCPError(PERMISSION_DENIED, "Invalid authentication credentials",
                                Undefined))

\* a call of authenticate by the application
Authenticate(authHeader) ==
    auth' = [config |-> auth.config, header |-> authHeader,
             outcome |-> authenticate(auth.config, authHeader)]

\* the configurations: apiKeys absent, empty or ["k1"]; allowAnonymous;
\* customValidator absent, accepting "k2" only, or accepting nothing
AuthConfigs ==
    [apiKeys : {Undefined, [t |-> "array", items |-> {}],
                [t |-> "array", items |-> {<< "k1" >>}]},
     allowAnonymous : BOOLEAN,
     customValidator : {Undefined, [t |-> "function", accepts |-> {<< "k2" >>}],
                        [t |-> "function", accepts |-> {}]}]

\* the values of headers?.authorization
AuthHeaders ==
    {Undefined, String(<< "" >>), String(<< "Bearer", "k1" >>),
     String(<< "bearer", "k2" >>), String(<< "BEARER", "k1" >>), String(<< "k1" >>),
     String(<< "Basic", "k1" >>), String(<< "Bearer", "bad" >>)}

\* `new AuthMiddleware(config)`
InitAuth(configs) ==
    auth \in {[config |-> c, header |-> Undefined, outcome |-> [t |-> "none"]] :
                c \in configs}

\* the middleware of an application that uses one limiter and one key list
InitMiddleware ==
    /\ InitRateLimiter({2})
    /\ InitAuth({[apiKeys |-> [t |-> "array", items |-> {<< "k1" >>}],
                  allowAnonymous |-> FALSE, customValidator |-> Undefined]})

-----------------------------------------------------------------------------
(* Specifications *)

\* the state after `new MCPServer()` and the application's setup, which has
\* registered a resource and a prompt (as the example servers do in their
\* constructors); tools come and go while the server runs
Init ==
    /\ initialized = FALSE
    /\ tools = <<>>
    /\ resources = MapSet(<<>>, "file:///r",
                          [definition |-> [uri |-> "file:///r", name |-> "r"],
                           handler |-> "h1"])
    /\ prompts = MapSet(<<>>, "math_help",
                        [definition |-> [name |-> "math_help", description |-> "help"],
                         handler |-> "h1"])
    /\ requestId = 0
    /\ pendingRequests = <<>>
    /\ timers = {}
    /\ waiters = <<>>
    /\ inflight = <<>>
    /\ closed = FALSE
    /\ exitTimer = FALSE
    /\ exited = FALSE
    /\ last = [op |-> "init", message |-> NoMessage, request |-> NoRequest,
               outcome |-> NoResponse, wrote |-> <<>>, invoked |-> <<>>, n |-> 0, wasInitialized |-> FALSE]
    /\ errorListener = FALSE
    /\ buffer = <<>>
    /\ wire = <<>>
    /\ written = <<>>
    /\ emitted = <<>>
    /\ issued = <<>>
    /\ initializeHandled = FALSE
    /\ InitMiddleware

\* the server as a peer and the application drive it: inbound messages,
\* handler completions, registration, the end of stdin and shutdown
Next ==
    \/ \E message \in ServerMessages :
          Receive(message) /\ UNCHANGED <<streamVars, historyVars, middlewareVars>>
    \/ \E i \in 1..MaxInflight :
          HandlerDone(i) /\ UNCHANGED <<streamVars, historyVars, middlewareVars>>
    \/ \E definition \in ToolDefinitions, handler \in Handlers :
          addTool(definition, handler) /\ UNCHANGED <<streamVars, historyVars, middlewareVars>>
    \/ \E name \in ToolNames :
          removeTool(name) /\ UNCHANGED <<streamVars, historyVars, middlewareVars>>
    \/ handleEnd /\ UNCHANGED <<streamVars, historyVars, middlewareVars>>
    \/ shutdown /\ UNCHANGED <<streamVars, historyVars, middlewareVars>>
    \/ ProcessExit /\ UNCHANGED <<streamVars, historyVars, middlewareVars>>

Spec == Init /\ [][Next]_vars

\* the endpoint issues outbound requests; responses, deadlines, the end of
\* stdin and shutdown interleave
NextOut ==
    \/ \E method \in {"ping"} :
          sendRequest(method) /\ UNCHANGED <<streamVars, historyVars, middlewareVars>>
    \/ \E message \in ResponseMessages :
          Receive(message) /\ UNCHANGED <<streamVars, historyVars, middlewareVars>>
    \/ \E w \in 1..MaxRequests :
          Timeout(w) /\ UNCHANGED <<streamVars, historyVars, middlewareVars>>
    \/ handleEnd /\ UNCHANGED <<streamVars, historyVars, middlewareVars>>
    \/ shutdown /\ UNCHANGED <<streamVars, historyVars, middlewareVars>>
    \/ ProcessExit /\ UNCHANGED <<streamVars, historyVars, middlewareVars>>

SpecOut == Init /\ [][NextOut]_vars

\* the registrations an application makes: `add` twice, with different
\* definitions and handlers, and `sub`; two resources; two prompts
RegistryTools ==
    { [definition |-> [name |-> "add", description |-> "Add two numbers",
                       inputSchema |-> AddSchema], handler |-> "h1"],
      [definition |-> [name |-> "add", description |-> "Add, revised",
                       inputSchema |-> AddSchema], handler |-> "h2"],
      [definition |-> [name |-> "sub", description |-> "Subtract two numbers",
                       inputSchema |-> AddSchema], handler |-> "h1"] }

RegistryResources ==
    { [definition |-> [uri |-> "file:///r", name |-> "r"], handler |-> "h1"],
      [definition |-> [uri |-> "file:///s", name |-> "s"], handler |-> "h1"] }

RegistryPrompts ==
    { [definition |-> [name |-> "math_help", description |-> "help"], handler |-> "h1"],
      [definition |-> [name |-> "units", description |-> "units"], handler |-> "h1"] }

\* the history of one add or remove call
Issue(op, registry, key, definition, handler) ==
    /\ Len(issued) < MaxOps
    /\ issued' = Append(issued, [op |-> op, registry |-> registry, key |-> key,
                                 definition |-> definition, handler |-> handler])

ListRequests ==
    { Request(NumId(1), method, NoParams) :
        method \in {"tools/list", "resources/list", "prompts/list"} }

\* an application registers and removes tools, resources and prompts while a
\* peer lists them
NextRegistry ==
    \/ \E e \in RegistryTools :
          /\ addTool(e.definition, e.handler)
          /\ Issue("add", "tools", e.definition.name, e.definition, e.handler)
          /\ UNCHANGED <<streamVars, initializeHandled, middlewareVars>>
    \/ \E name \in {"add", "sub"} :
          /\ removeTool(name)
          /\ Issue("remove", "tools", name, Undefined, "")
          /\ UNCHANGED <<streamVars, initializeHandled, middlewareVars>>
    \/ \E e \in RegistryResources :
          /\ addResource(e.definition, e.handler)
          /\ Issue("add", "resources", e.definition.uri, e.definition, e.handler)
          /\ UNCHANGED <<streamVars, initializeHandled, middlewareVars>>
    \/ \E uri \in {"file:///r", "file:///s"} :
          /\ removeResource(uri)
          /\ Issue("remove", "resources", uri, Undefined, "")
          /\ UNCHANGED <<streamVars, initializeHandled, middlewareVars>>
    \/ \E e \in RegistryPrompts :
          /\ addPrompt(e.definition, e.handler)
          /\ Issue("add", "prompts", e.definition.name, e.definition, e.handler)
          /\ UNCHANGED <<streamVars, initializeHandled, middlewareVars>>
    \/ \E name \in {"math_help", "units"} :
          /\ removePrompt(name)
          /\ Issue("remove", "prompts", name, Undefined, "")
          /\ UNCHANGED <<streamVars, initializeHandled, middlewareVars>>
    \/ \E message \in ListRequests :
          Receive(message) /\ UNCHANGED <<streamVars, historyVars, middlewareVars>>

\* the method names of the peer's notifications: a letter, a line feed, a
\* backslash followed by the letter n
Methods == { <<"a">>, <<LF>>, <<Backslash, "n">> }

\* lines that are no JSON
MalformedLines == { <<"{">> }

BlankLines == { <<Space>> }

\* a peer writes lines to stdin, the reader takes them in chunks of any size;
\* stdin may fail or end, the application may subscribe to errors and shut
\* the server down
NextStream ==
    \/ \E method \in Methods : peerSend(method)
    \/ \E line \in MalformedLines : peerWrite("malformed", line)
    \/ \E line \in BlankLines : peerWrite("blank", line)
    \/ \E k \in 1..Len(wire) : handleData(k)
    \/ handleError
    \/ onError
    \/ /\ handleEnd
       /\ emitted' = Append(emitted, CloseEvent)
       /\ UNCHANGED <<errorListener, buffer, wire, written, historyVars, middlewareVars>>
    \/ /\ shutdown
       /\ emitted' = close(closed, emitted)
       /\ UNCHANGED <<errorListener, buffer, wire, written, historyVars, middlewareVars>>
    \/ ProcessExit /\ UNCHANGED <<streamVars, historyVars, middlewareVars>>

SpecStream == Init /\ [][NextStream]_vars

\* `initialize` requests that carry params
InitializeRequests ==
    { Request(id, "initialize", Params("undefined", NoArguments, "undefined", "undefined")) :
        id \in {NumId(1), StrId(1)} }

\* handleMessage hands this message to handleRequest as an `initialize`
\* request
HandlesInitialize(message) ==
    /\ IsDefined(message.id)
    /\ ~IsDefined(message.result)
    /\ ~IsDefined(message.error)
    /\ message.method = StringValue("initialize")

\* a peer drives the server through its lifecycle; the history records
\* whether an `initialize` request was handled
NextLifecycle ==
    \/ \E message \in RequestMessages \cup InitializeRequests :
          /\ Receive(message)
          /\ initializeHandled' = (initializeHandled \/ HandlesInitialize(message))
          /\ UNCHANGED <<streamVars, issued, middlewareVars>>
    \/ \E i \in 1..MaxInflight :
          HandlerDone(i) /\ UNCHANGED <<streamVars, historyVars, middlewareVars>>
    \/ handleEnd /\ UNCHANGED <<streamVars, historyVars, middlewareVars>>
    \/ shutdown /\ UNCHANGED <<streamVars, historyVars, middlewareVars>>
    \/ ProcessExit /\ UNCHANGED <<streamVars, historyVars, middlewareVars>>

SpecLifecycle == Init /\ [][NextLifecycle]_vars

\* the messages of a peer that goes on writing while the server shuts down
ShutdownMessages ==
    { Request(NumId(1), "tools/list", NoParams),
      Request(NumId(1), "resources/read",
              Params("undefined", NoArguments, "file:///r", "undefined")),
      Request(StrId(1), "prompts/get",
              Params("math_help", NoArguments, "undefined", "undefined")),
      Request(NoId, "tools/list", NoParams) }

\* requests arrive, their handlers run, the application calls shutdown(), and
\* the peer keeps writing until the process exits
NextShutdown ==
    \/ \E message \in ShutdownMessages :
          Receive(message) /\ UNCHANGED <<streamVars, historyVars, middlewareVars>>
    \/ \E message \in ShutdownMessages :
          ReceiveClosed(message) /\ UNCHANGED <<streamVars, historyVars, middlewareVars>>
    \/ \E i \in 1..MaxInflight :
          HandlerDone(i) /\ UNCHANGED <<streamVars, historyVars, middlewareVars>>
    \/ shutdown /\ UNCHANGED <<streamVars, historyVars, middlewareVars>>
    \/ ProcessExit /\ UNCHANGED <<streamVars, historyVars, middlewareVars>>

SpecShutdown == Init /\ [][NextShutdown]_vars

\* the endpoint right after `new MCPServer()`, nothing registered
InitEndpoint ==
    /\ initialized = FALSE
    /\ tools = <<>>
    /\ resources = <<>>
    /\ prompts = <<>>
    /\ requestId = 0
    /\ pendingRequests = <<>>
    /\ timers = {}
    /\ waiters = <<>>
    /\ inflight = <<>>
    /\ closed = FALSE
    /\ exitTimer = FALSE
    /\ exited = FALSE
    /\ last = [op |-> "init", message |-> NoMessage, request |-> NoRequest,
               outcome |-> NoResponse, wrote |-> <<>>, invoked |-> <<>>, n |-> 0,
               wasInitialized |-> FALSE]
    /\ errorListener = FALSE
    /\ buffer = <<>>
    /\ wire = <<>>
    /\ written = <<>>
    /\ emitted = <<>>
    /\ issued = <<>>
    /\ initializeHandled = FALSE

\* calls of one RateLimiter as time passes
NextLimiter ==
    \/ \E method \in Keys :
          /\ checkLimit(method)
          /\ Len(admitted'["tools/call"]) + Len(admitted'["tools/list"]) <= MaxCalls
          /\ UNCHANGED <<serverVars, streamVars, historyVars, auth>>
    \/ Tick /\ UNCHANGED <<serverVars, streamVars, historyVars, auth>>
    \/ cleanup /\ UNCHANGED <<serverVars, streamVars, historyVars, auth>>
    \/ \E key \in Keys \cup {""} :
          reset(key) /\ UNCHANGED <<serverVars, streamVars, historyVars, auth>>

InitLimiter ==
    /\ InitEndpoint
    /\ InitRateLimiter(Limits)
    /\ InitAuth({[apiKeys |-> Undefined, allowAnonymous |-> TRUE,
                  customValidator |-> Undefined]})

SpecLimiter == InitLimiter /\ [][NextLimiter]_vars

\* calls of authenticate on an AuthMiddleware of any configuration
NextAuth ==
    \E authHeader \in AuthHeaders :
        Authenticate(authHeader) /\ UNCHANGED <<serverVars, streamVars, historyVars, limiterVars>>

InitAuthMiddleware ==
    /\ InitEndpoint
    /\ InitRateLimiter({2})
    /\ InitAuth(AuthConfigs)

SpecAuth == InitAuthMiddleware /\ [][NextAuth]_vars

\* the registries start empty: the state right after `new MCPServer()`
InitRegistry ==
    /\ initialized = FALSE
    /\ tools = <<>>
    /\ resources = <<>>
    /\ prompts = <<>>
    /\ requestId = 0
    /\ pendingRequests = <<>>
    /\ timers = {}
    /\ waiters = <<>>
    /\ inflight = <<>>
    /\ closed = FALSE
    /\ exitTimer = FALSE
    /\ exited = FALSE
    /\ last = [op |-> "init", message |-> NoMessage, request |-> NoRequest,
               outcome |-> NoResponse, wrote |-> <<>>, invoked |-> <<>>, n |-> 0,
               wasInitialized |-> FALSE]
    /\ errorListener = FALSE
    /\ buffer = <<>>
    /\ wire = <<>>
    /\ written = <<>>
    /\ emitted = <<>>
    /\ issued = <<>>
    /\ initializeHandled = FALSE
    /\ InitMiddleware

SpecRegistry == InitRegistry /\ [][NextRegistry]_vars

-----------------------------------------------------------------------------
(* Properties *)

\* a well-formed inbound request: an id and a method, no result, no error
IsRequest(message) ==
    /\ IsDefined(message.id)
    /\ MethodTruthy(message.method)
    /\ ~IsDefined(message.result)
    /\ ~IsDefined(message.error)

\* a well-formed inbound notification: a method and no id
IsNotification(message) ==
    /\ ~IsDefined(message.id)
    /\ MethodTruthy(message.method)

\* a line of stdout that is a response envelope (not an outbound request)
IsResponseLine(line) == "method" \notin line.keys

\* the last step wrote exactly one line, an error response with this code
WroteError(code) ==
    /\ Len(last.wrote) = 1
    /\ "error" \in last.wrote[1].keys
    /\ last.wrote[1].error.code = code

\* C1: initialization gating.  Every request other than `initialize` that the
\* server processes while isInitialized() is false is answered with an error
\* of code -32000 and no registered handler is called for it.
C1_InitializationGating ==
    ( /\ last.op = "message"
      /\ IsRequest(last.message)
      /\ last.message.method.s # "initialize"
      /\ ~last.wasInitialized )
    => ( WroteError(INITIALIZATION_FAILED) /\ last.invoked = <<>> )

\* C2: single response per request.  While the transport is open, a message
\* with an id and a method is answered with exactly one response carrying its
\* id: either by the step that receives it, or, when it waits for a registered
\* handler, by the step in which that handler completes; no other step writes
\* a response.
C2_SingleResponse ==
    /\ ( last.op = "message" /\ IsRequest(last.message) )
       => \/ ( /\ Len(last.wrote) = 1
               /\ IsResponseLine(last.wrote[1])
               /\ last.wrote[1].id = last.message.id
               /\ last.invoked = <<>> )
          \/ ( /\ last.wrote = <<>>
               /\ last.invoked # <<>>
               /\ Len(inflight) > 0
               /\ inflight[Len(inflight)].id = last.message.id )
    /\ ( last.op = "done" /\ IsDefined(last.request.id) /\ ~closed )
       => ( /\ Len(last.wrote) = 1
            /\ IsResponseLine(last.wrote[1])
            /\ last.wrote[1].id = last.request.id )
    /\ ( last.op \notin {"message", "done"} )
       => \A i \in 1..Len(last.wrote) : ~IsResponseLine(last.wrote[i])

\* C3: zero responses per notification.  A message with a method and no id
\* makes the server write nothing: not when it is received (unknown method,
\* malformed params, a synchronous failure included) and not when the
\* registered handler it called completes or throws.
C3_NoResponseToNotification ==
    /\ ( last.op = "message" /\ IsNotification(last.message) ) => last.wrote = <<>>
    /\ ( last.op = "done" /\ ~IsDefined(last.request.id) ) => last.wrote = <<>>

\* C3 witness: the tool handler a notification called has thrown
C3_Witness ==
    /\ last.op = "done"
    /\ ~IsDefined(last.request.id)
    /\ last.request.call.kind = "tool"
    /\ last.outcome.t = "throw"
    /\ ~closed

\* an inbound response: an id with a result or an error
IsResponse(message) ==
    /\ IsDefined(message.id)
    /\ IsDefined(message.result) \/ IsDefined(message.error)

\* C4: pending-table conservation.  Whenever the waiter of an outbound request
\* has been settled, it was settled by a result, by an error response, by its
\* timeout or by shutdown, and its entry is no longer in pendingRequests.
C4_PendingConservation ==
    \A w \in 1..Len(waiters) :
        waiters[w].st # "pending"
        => ( /\ waiters[w].by \in {"response", "error response", "timeout", "shutdown"}
             /\ ~MapHas(pendingRequests, waiters[w].id) )

\* C5: outbound timeout.  When the deadline timer of a request fires, its
\* waiter is rejected with an error of code -32006 and its entry leaves
\* pendingRequests; a response whose id is not in the table settles no waiter,
\* leaves pendingRequests alone and writes nothing.
C5_OutboundTimeout ==
    [][ /\ last'.op = "timeout"
           => ( /\ waiters'[last'.n].st = "rejected"
                /\ waiters'[last'.n].value.code = TIMEOUT_ERROR
                /\ ~MapHas(pendingRequests', waiters'[last'.n].id) )
        /\ ( /\ last'.op = "message"
             /\ IsResponse(last'.message)
             /\ ~MapHas(pendingRequests, last'.message.id) )
           => ( /\ UNCHANGED <<pendingRequests, waiters, timers>>
                /\ last'.wrote = <<>> )
      ]_vars

\* C6: shutdown cancels pending requests.  shutdown() rejects the waiter of
\* every entry of pendingRequests with a TimeoutError (code -32006, message
\* "shutting down"), cancels its timer and leaves pendingRequests empty.
C6_ShutdownCancelsPending ==
    [][ last'.op = "shutdown"
        => ( /\ pendingRequests' = <<>>
             /\ \A i \in 1..Len(pendingRequests) :
                   LET e == pendingRequests[i].value
                   IN /\ waiters'[e.waiter].st = "rejected"
                      /\ waiters'[e.waiter].value.code = TIMEOUT_ERROR
                      /\ waiters'[e.waiter].value.message = "shutting down"
                      /\ e.timeout \notin timers' )
      ]_vars

\* C7: no cross-talk.  The ids sendRequest assigns are numbers that strictly
\* increase in issue order, every entry of pendingRequests belongs to the
\* waiter that was issued its key, and a waiter settled by a response was
\* settled by a response carrying its own id, with that response's result or
\* error.
C7_NoCrossTalk ==
    /\ \A v, w \in 1..Len(waiters) :
          v < w => ( /\ waiters[v].id.t = "number"
                     /\ waiters[w].id.t = "number"
                     /\ waiters[v].id.v < waiters[w].id.v )
    /\ \A i \in 1..Len(pendingRequests) :
          waiters[pendingRequests[i].value.waiter].id = pendingRequests[i].key
    /\ \A w \in 1..Len(waiters) :
          /\ waiters[w].by = "response"
             => ( /\ waiters[w].from.id = waiters[w].id
                  /\ waiters[w].st = "resolved"
                  /\ waiters[w].value = waiters[w].from.result )
          /\ waiters[w].by = "error response"
             => ( /\ waiters[w].from.id = waiters[w].id
                  /\ waiters[w].st = "rejected"
                  /\ waiters[w].value.code = waiters[w].from.error.code
                  /\ waiters[w].value.message = waiters[w].from.error.message )

\* C7 witness: three requests were pending together and their responses came
\* out of order: the third was resolved with r1, then the first with r2, the
\* second is still pending
C7_Witness ==
    /\ Len(waiters) = 3
    /\ waiters[3].by = "response"
    /\ waiters[3].value = StringValue("r1")
    /\ waiters[1].by = "response"
    /\ waiters[1].value = StringValue("r2")
    /\ waiters[2].st = "pending"
    /\ MapHas(pendingRequests, waiters[2].id)
    /\ last.op = "message"
    /\ last.message.id = waiters[1].id

\* C8: id echo.  Every response the server writes carries the id of the
\* request it answers, equal in value and in wire type: the id of the message
\* just received, or the id the in-flight request took from its message.
C8_IdEcho ==
    /\ last.op = "message"
       => /\ \A i \in 1..Len(last.wrote) : last.wrote[i].id = last.message.id
          /\ last.invoked # <<>>
             => ( Len(inflight) > 0 /\ inflight[Len(inflight)].id = last.message.id )
    /\ last.op = "done"
       => \A i \in 1..Len(last.wrote) : last.wrote[i].id = last.request.id

\* C8 witness: two requests in flight, and the later one, with the string id
\* "1", is answered while the earlier one, with the number 1, still waits
C8_Witness ==
    /\ last.op = "done"
    /\ last.n = 2
    /\ last.request.id = StrId(1)
    /\ Len(last.wrote) = 1
    /\ last.wrote[1].id = StrId(1)
    /\ Len(inflight) = 1
    /\ inflight[1].id = NumId(1)

\* C9: mutual exclusion.  Every response envelope the server writes has a
\* result or an error, and never both.
C9_ResultXorError ==
    \A i \in 1..Len(last.wrote) :
        IsResponseLine(last.wrote[i])
        => ( ("result" \in last.wrote[i].keys) # ("error" \in last.wrote[i].keys) )

\* C9 witness: an error response was written after a registered handler threw
C9_Witness ==
    /\ last.op = "done"
    /\ last.outcome.t = "throw"
    /\ Len(last.wrote) = 1
    /\ "error" \in last.wrote[1].keys

\* C10: validation failure.  A tools/call request for a registered tool whose
\* supplied arguments do not satisfy the tool's inputSchema is answered with an
\* error of code -32005 whose data holds the validation errors with their
\* instance paths, and the tool handler is not called.
C10_ValidationFailure ==
    ( /\ last.op = "message"
      /\ IsRequest(last.message)
      /\ last.message.method.s = "tools/call"
      /\ IsDefined(last.message.params)
      /\ MapHas(tools, last.message.params.name)
      /\ last.message.params.arguments.t = "object"
      /\ Len(AjvErrors(MapGet(tools, last.message.params.name).value.definition.inputSchema,
                       last.message.params.arguments)) > 0 )
    => ( /\ WroteError(VALIDATION_ERROR)
         /\ Len(last.wrote[1].error.data.errors) > 0
         /\ last.invoked = <<>> )

\* C11: empty arguments equal an empty object.  A tools/call request for a
\* registered tool that omits `arguments` has the outcome the same request
\* with `arguments: {}` has in the same state: the same validation outcome, the
\* same decision to call the handler (with {}), the same response.
C11_EmptyArgumentsEqualEmptyObject ==
    ( /\ last.op = "message"
      /\ IsRequest(last.message)
      /\ last.message.method.s = "tools/call"
      /\ IsDefined(last.message.params)
      /\ MapHas(tools, last.message.params.name)
      /\ last.message.params.arguments = NoArguments )
    => LET empty == handleToolsCall([last.message.params EXCEPT
                                       !.arguments = ObjectArguments("absent", "absent")])
       IN /\ last.outcome.t = empty.t
          /\ last.outcome.t = "await"
             => ( /\ Len(last.invoked) = 1
                  /\ last.invoked[1].input = empty.call.input )
          /\ last.outcome.t # "await"
             => last.wrote = Respond(closed, last.message.id, empty)

\* C12: unknown tool.  A tools/call request naming a tool that is not in the
\* registry when it is dispatched is answered with an error of code -32601
\* whose message names the tool, and no handler is called; also when the name
\* was registered before and has been removed.
C12_UnknownTool ==
    ( /\ last.op = "message"
      /\ IsRequest(last.message)
      /\ last.message.method.s = "tools/call"
      /\ IsDefined(last.message.params)
      /\ ~MapHas(tools, last.message.params.name) )
    => ( /\ WroteError(METHOD_NOT_FOUND)
         /\ last.wrote[1].error.message = "Tool not found: " \o last.message.params.name
         /\ last.invoked = <<>> )

\* C12 witness: a call of `add` is still in flight (so `add` was registered),
\* the tool has been removed since, and a second call of `add` is refused
C12_Witness ==
    /\ last.op = "message"
    /\ last.message.method = StringValue("tools/call")
    /\ last.message.params.name = "add"
    /\ ~MapHas(tools, "add")
    /\ Len(inflight) = 1
    /\ inflight[1].call.kind = "tool"
    /\ inflight[1].call.key = "add"
    /\ WroteError(METHOD_NOT_FOUND)

\* C13: handler failures are contained and typed.  When a registered handler
\* throws, the step that resumes the request ends with an error of code -32001
\* for a tool and -32603 for a resource or a prompt, writes it as the response
\* of a request (while the transport is open), and leaves the server as it
\* was: open, running, with its registries and its other in-flight requests.
C13_HandlerFailuresContained ==
    [][ ( last'.op = "done" /\ last'.outcome.t = "throw" )
        => ( /\ AsMCPError(last'.outcome.error).code =
                   IF last'.request.call.kind = "tool"
                   THEN TOOL_EXECUTION_ERROR ELSE INTERNAL_ERROR
             /\ ( IsDefined(last'.request.id) /\ ~closed )
                => ( /\ Len(last'.wrote) = 1
                     /\ "error" \in last'.wrote[1].keys
                     /\ last'.wrote[1].id = last'.request.id
                     /\ last'.wrote[1].error.code =
                           IF last'.request.call.kind = "tool"
                           THEN TOOL_EXECUTION_ERROR ELSE INTERNAL_ERROR )
             /\ UNCHANGED <<closed, exited, exitTimer, initialized, tools, resources,
                            prompts>>
             /\ Len(inflight') = Len(inflight) - 1 )
      ]_vars

\* C13 witness: a resource handler has thrown, its request was answered with
\* -32603, and the server went on to answer the next request
C13_Witness ==
    /\ last.op = "done"
    /\ last.outcome.t = "throw"
    /\ last.request.call.kind = "resource"
    /\ IsDefined(last.request.id)
    /\ WroteError(INTERNAL_ERROR)
    /\ ~closed
    /\ ~exited
    /\ Len(inflight) = 1

\* the registry a history entry is about
Registry(kind) ==
    CASE kind = "tools" -> tools
      [] kind = "resources" -> resources
      [] OTHER -> prompts

\* the most recent add or remove issued for a key, if any
LatestOp(kind, key) ==
    LET idx == {i \in 1..Len(issued) : issued[i].registry = kind /\ issued[i].key = key}
    IN IF idx = {} THEN <<>>
       ELSE << issued[CHOOSE i \in idx : \A j \in idx : j <= i] >>

\* every key is absent or holds the definition and handler of its latest add
RegistryMatchesHistory ==
    \A kind \in {"tools", "resources", "prompts"} :
       /\ \A i, j \in 1..Len(Registry(kind)) :
             Registry(kind)[i].key = Registry(kind)[j].key => i = j
       /\ \A key \in {"add", "sub", "file:///r", "file:///s", "math_help", "units"} :
             LET l == LatestOp(kind, key)
             IN IF l = <<>> \/ l[1].op = "remove"
                THEN ~MapHas(Registry(kind), key)
                ELSE /\ MapHas(Registry(kind), key)
                     /\ MapGet(Registry(kind), key).value.definition = l[1].definition
                     /\ MapGet(Registry(kind), key).value.handler = l[1].handler

\* C14: registry keys are unique, the last writer wins, removal is idempotent.
\* After every add or remove, each key of each registry occurs at most once and
\* is absent when its latest call was a remove (or it was never added), else
\* holds the definition and handler of its latest add; and a remove of a key
\* that is absent (never added, or removed already) changes no registry.
C14_RegistryLastWriterWins ==
    [][ /\ RegistryMatchesHistory'
        /\ ( /\ Len(issued') = Len(issued) + 1
             /\ issued'[Len(issued')].op = "remove"
             /\ ~MapHas(Registry(issued'[Len(issued')].registry),
                        issued'[Len(issued')].key) )
           => UNCHANGED <<tools, resources, prompts>>
      ]_vars

\* C14 witness: `add` was registered, registered again with another definition
\* and handler, and `sub`, never registered, was removed; the registry holds
\* the second registration of `add`
C14_Witness ==
    /\ Len(issued) = 3
    /\ issued[1].op = "add" /\ issued[1].key = "add" /\ issued[1].handler = "h1"
    /\ issued[2].op = "add" /\ issued[2].key = "add" /\ issued[2].handler = "h2"
    /\ issued[3].op = "remove" /\ issued[3].key = "sub" /\ issued[3].registry = "tools"
    /\ Len(tools) = 1
    /\ tools[1].value.handler = "h2"
    /\ tools[1].value.definition.description = "Add, revised"

\* the add calls that survive in the history of a registry, in issue order: an
\* add survives when no later add or remove is about its key
Surviving(kind) ==
    SelectIdx([i \in 1..Len(issued) |->
                 /\ issued[i].op = "add"
                 /\ issued[i].registry = kind
                 /\ \A j \in (i + 1)..Len(issued) :
                       ~(issued[j].registry = kind /\ issued[j].key = issued[i].key)],
              1, Len(issued))

FilteredHistory(kind) ==
    [n \in 1..Len(Surviving(kind)) |-> issued[Surviving(kind)[n]].definition]

\* C15: insertion-order listing.  The result of tools/list (resources/list,
\* prompts/list) is the history of add calls in issue order, keeping for each
\* key only its most recent add that no remove followed: every registered key
\* once, with its latest definition, at the position of that add.
C15_InsertionOrderListing ==
    ( /\ last.op = "message"
      /\ IsRequest(last.message)
      /\ last.message.method.s \in {"tools/list", "resources/list", "prompts/list"} )
    => ( /\ Len(last.wrote) = 1
         /\ "result" \in last.wrote[1].keys
         /\ last.wrote[1].result.list =
               FilteredHistory(CASE last.message.method.s = "tools/list" -> "tools"
                                 [] last.message.method.s = "resources/list" -> "resources"
                                 [] OTHER -> "prompts") )

RECURSIVE TextUpTo(_)
\* the characters of the first n lines the peer wrote
TextUpTo(n) == IF n = 0 THEN <<>> ELSE TextUpTo(n - 1) \o written[n].text

\* how many characters of the peer's stream the reader was handed
Delivered == Len(TextUpTo(Len(written))) - Len(wire)

\* how many of the peer's lines the reader was handed to the end
CompleteLines ==
    CHOOSE n \in 0..Len(written) :
       /\ Len(TextUpTo(n)) <= Delivered
       /\ \A m \in (n + 1)..Len(written) : Len(TextUpTo(m)) > Delivered

\* the part of the stream handed to the reader after the last complete line
Unterminated == SubSeq(TextUpTo(Len(written)), Len(TextUpTo(CompleteLines)) + 1, Delivered)

\* C16: framing round trip under arbitrary chunking.  When every line of the
\* stream was written by send, then however the stream is cut into chunks the
\* reader never emits a parse error and, while the transport is open, has
\* emitted exactly one message event per line handed to it to the end, equal
\* to the message sent and in the order sent, and holds the unterminated rest
\* of what it was handed in its buffer, unchanged.
C16_FramingRoundTrip ==
    ( \A i \in 1..Len(written) : written[i].kind = "message" )
    => ( /\ \A i \in 1..Len(emitted) : emitted[i].code # PARSE_ERROR
         /\ ( ~closed /\ ~StreamFailed )
            => ( /\ emitted = [i \in 1..CompleteLines |->
                                 MessageEvent([method |-> written[i].method])]
                 /\ buffer = Unterminated ) )

\* C16 witness: two messages were sent, the first with a line feed in its
\* method name; the reader has emitted the first and holds a part of the
\* second, whose rest is still to come
C16_Witness ==
    /\ Len(written) = 2
    /\ written[1].kind = "message"
    /\ written[1].method = << LF >>
    /\ written[2].kind = "message"
    /\ emitted = << MessageEvent([method |-> << LF >>]) >>
    /\ Len(buffer) > 1
    /\ Len(wire) > 1
    /\ ~closed

\* the events of the first n lines of the peer: a message event for the text
\* of a message, a parse error for a malformed line, nothing for a blank one
RECURSIVE ExpectedEvents(_)
ExpectedEvents(n) ==
    IF n = 0 THEN <<>>
    ELSE ExpectedEvents(n - 1)
         \o ( CASE written[n].kind = "message" ->
                     << MessageEvent([method |-> written[n].method]) >>
                [] written[n].kind = "malformed" -> << ErrorEvent(PARSE_ERROR) >>
                [] OTHER -> <<>> )

\* C17: a malformed line is a local error.  A chunk handed to the open
\* transport leaves it open and the server running, and after it the reader
\* has emitted, for the lines handed to it to the end and in their order, a
\* message event for every message and an error event of code -32700 for
\* every line that is no JSON, the lines after a malformed one included.
C17_MalformedLineIsLocal ==
    [][ ( Len(wire') < Len(wire) /\ ~closed )
        => ( /\ ~closed'
             /\ ~exitTimer'
             /\ emitted' = ExpectedEvents(CompleteLines)' )
      ]_vars

\* C18: read errors are terminal.  When stdin reports an error the transport
\* becomes closed and emits `close`.
C18_ReadErrorsTerminal ==
    [][ ( ~StreamFailed /\ StreamFailed' )
        => ( /\ closed'
             /\ emitted'[Len(emitted')] = CloseEvent )
      ]_vars

\* C19: writes to a closed transport fail.  Once the transport is closed, by
\* close() or by the end of stdin, a send writes nothing and fails with the
\* error that the transport is closed: the request sendRequest hands to send
\* is not written and its waiter is rejected with that error.
C19_ClosedTransportRejectsSend ==
    ( last.op = "sendRequest" /\ closed )
    => ( /\ last.wrote = <<>>
         /\ waiters[last.n].st = "rejected"
         /\ waiters[last.n].by = "send"
         /\ waiters[last.n].value.message = "Transport is closed" )

\* C19 witness: shutdown() has closed the transport and a request issued
\* after it was rejected by send
C19_Witness ==
    /\ closed
    /\ exitTimer
    /\ last.op = "sendRequest"
    /\ last.wrote = <<>>
    /\ waiters[last.n].by = "send"

\* C20: lifecycle ordering.  isInitialized() is false in every state in which
\* no `initialize` request has been handled, and it becomes true only in a
\* step that processes an `initialized` notification after an `initialize`
\* request was handled.
C20_LifecycleOrdering ==
    [][ /\ initialized' => initializeHandled'
        /\ ( ~initialized /\ initialized' )
           => ( /\ last'.op = "message"
                /\ IsNotification(last'.message)
                /\ last'.message.method = StringValue("initialized")
                /\ initializeHandled )
      ]_vars

\* C21: capabilities are exchanged once and are immutable.  The first
\* `initialize` request is answered with protocolVersion "2024-11-05", the
\* configured serverInfo and the fixed capability set, whatever its params; an
\* `initialize` request that comes after one was handled is not answered with
\* another result.
C21_CapabilitiesExchangedOnce ==
    [][ ( last'.op = "message" /\ HandlesInitialize(last'.message) )
        => ( /\ Len(last'.wrote) = 1
             /\ last'.wrote[1].id = last'.message.id
             /\ IF initializeHandled
                THEN "result" \notin last'.wrote[1].keys
                ELSE /\ "result" \in last'.wrote[1].keys
                     /\ last'.wrote[1].result.protocolVersion = "2024-11-05"
                     /\ last'.wrote[1].result.serverInfo = ServerInfo
                     /\ last'.wrote[1].result.capabilities =
                           [logging |-> {}, tools |-> {"listChanged"},
                            resources |-> {"subscribe", "listChanged"},
                            prompts |-> {"listChanged"}] )
      ]_vars

\* the methods handleRequest has a case for
RecognizedMethods ==
    {"initialize", "initialized", "tools/list", "tools/call", "resources/list",
     "resources/read", "prompts/list", "prompts/get", "logging/setLevel"}

\* C25: unclassifiable envelopes.  A message with an id and no method, result
\* or error is answered with exactly one error response of code -32600 that
\* carries its id; such a message without an id makes the server write nothing.
C25_UnclassifiableEnvelope ==
    ( /\ last.op = "message"
      /\ ~IsDefined(last.message.method)
      /\ ~IsDefined(last.message.result)
      /\ ~IsDefined(last.message.error) )
    => IF IsDefined(last.message.id)
       THEN /\ WroteError(INVALID_REQUEST)
            /\ last.wrote[1].id = last.message.id
       ELSE last.wrote = <<>>

\* C26: unknown method.  A request with an id whose method handleRequest has
\* no case for is answered with an error of code -32601, calls no registered
\* handler, and leaves the registries, the pending table, the in-flight
\* requests and the initialization flag as they were.
C26_UnknownMethod ==
    [][ ( /\ last'.op = "message"
          /\ IsRequest(last'.message)
          /\ last'.message.method.s \notin RecognizedMethods )
        => ( /\ Len(last'.wrote) = 1
             /\ "error" \in last'.wrote[1].keys
             /\ last'.wrote[1].error.code = METHOD_NOT_FOUND
             /\ last'.wrote[1].id = last'.message.id
             /\ last'.invoked = <<>>
             /\ UNCHANGED <<tools, resources, prompts, pendingRequests, waiters,
                            inflight, initialized>> )
      ]_vars

\* C26 witness: a request with the string id "1" and an unknown method was
\* refused while another request waited for its handler
C26_Witness ==
    /\ last.op = "message"
    /\ last.message.method = StringValue("bogus/method")
    /\ last.message.id = StrId(1)
    /\ WroteError(METHOD_NOT_FOUND)
    /\ Len(inflight) = 1
    /\ MapHas(tools, "add")

\* C22: requests during shutdown are refused.  A request that arrives after
\* shutdown() was called and before the process has exited is answered with an
\* error of code -32603 and message "shutting down", and no handler is called
\* for it.
C22_RefusedDuringShutdown ==
    ( /\ last.op \in {"message", "dropped"}
      /\ IsRequest(last.message)
      /\ exitTimer
      /\ ~exited )
    => ( /\ WroteError(INTERNAL_ERROR)
         /\ last.wrote[1].id = last.message.id
         /\ last.wrote[1].error.message = "shutting down"
         /\ last.invoked = <<>> )

\* C28: in-flight handlers drain during shutdown.  The process exits only
\* through the grace timer shutdown() arms, and a handler that was running
\* when shutdown() was called and completes before the exit has its request
\* answered on the transport with one response carrying its id.
C28_HandlersDrain ==
    [][ /\ ( exited' /\ ~exited ) => exitTimer
        /\ ( /\ last'.op = "done"
             /\ IsDefined(last'.request.id)
             /\ exitTimer
             /\ ~exited' )
           => ( /\ Len(last'.wrote) = 1
                /\ IsResponseLine(last'.wrote[1])
                /\ last'.wrote[1].id = last'.request.id )
      ]_vars

\* C29: the inbound pump is not blocked by handlers.  While requests wait
\* for their handlers and the transport is open, the next request can be
\* received, and a request that needs no handler is answered at once with one
\* line carrying its id; of two requests in flight the later one can complete
\* first; every completion writes exactly one line, the response of the
\* request that completed.
C29_InboundPumpNotBlocked ==
    /\ ( Len(inflight) >= 1 /\ ~closed /\ ~exited )
       => ENABLED Receive(Request(StrId(1), "tools/list", NoParams))
    /\ ( Len(inflight) >= 2 /\ ~exited ) => ENABLED HandlerDone(2)
    /\ ( /\ last.op = "message"
         /\ IsRequest(last.message)
         /\ last.outcome.t \in {"return", "throw"} )
       => ( /\ Len(last.wrote) = 1
            /\ last.wrote[1].id = last.message.id )
    /\ ( last.op = "done" /\ IsDefined(last.request.id) /\ ~closed )
       => ( /\ Len(last.wrote) = 1
            /\ last.wrote[1].id = last.request.id )

\* C29 witness: request A (id 1) waits for its tool handler, and request B
\* (id "1", tools/list), received after it, has been answered
C29_Witness ==
    /\ Len(inflight) = 1
    /\ inflight[1].id = NumId(1)
    /\ inflight[1].call.kind = "tool"
    /\ last.op = "message"
    /\ last.message = Request(StrId(1), "tools/list", NoParams)
    /\ Len(last.wrote) = 1
    /\ "result" \in last.wrote[1].keys
    /\ last.wrote[1].id = StrId(1)

\* C27: terminal errors trigger shutdown.  Once the input stream has ended,
\* the server shuts down, so an outbound request that was pending when the
\* stream ended is rejected by shutdown and never by its own deadline: no
\* deadline fires for a pending request on a transport that has closed.
C27_TerminalErrorsTriggerShutdown ==
    [][ ( /\ last'.op = "timeout"
          /\ waiters[last'.n].st = "pending" )
        => ~closed
      ]_vars

\* what a sliding window over `history` (per key, the times of the calls
\* admitted before this one) demands of a step that is a call of checkLimit
SlidingWindow(history) ==
    LET key == lastCheck'.key
        inWindow == {i \in 1..Len(history[key]) : now - config.windowMs < history[key][i]}
    IN IF Cardinality(inWindow) < config.maxRequests
       THEN /\ lastCheck'.outcome.t = "return"
            /\ MapHas(requests', key)
            /\ MapGet(requests', key).value[Len(MapGet(requests', key).value)] = now
            /\ \A other \in Keys \ {key} :
                  /\ MapHas(requests', other) <=> MapHas(requests, other)
                  /\ MapHas(requests, other)
                     => MapGet(requests', other) = MapGet(requests, other)
       ELSE /\ lastCheck'.outcome.t = "throw"
            /\ lastCheck'.outcome.error.code = RATE_LIMIT_EXCEEDED
            /\ requests' = requests

\* C23 as stated: sliding-window rate limit.  A call of checkLimit at time
\* now is admitted and recorded exactly when fewer than maxRequests earlier
\* admitted calls of its key have a timestamp t with now - windowMs < t;
\* otherwise it fails with code -32004 and the stored history is unchanged.
C23_SlidingWindow_AsStated ==
    [][ lastCheck'.op = "checkLimit" => SlidingWindow(admitted) ]_vars

\* C23, amended: the same, counting the calls of the key admitted since
\* reset last cleared the key's history.
C23_SlidingWindow ==
    [][ lastCheck'.op = "checkLimit" => SlidingWindow(admittedSinceReset) ]_vars

\* C23 witness: a call is admitted for a key that has had more than
\* maxRequests admitted calls, the oldest of which has left the window
C23_Witness ==
    /\ lastCheck.op = "checkLimit"
    /\ lastCheck.outcome.t = "return"
    /\ config.maxRequests = 2
    /\ Len(admittedSinceReset[lastCheck.key]) = 3
    /\ admittedSinceReset[lastCheck.key][1] <= now - config.windowMs
    /\ admittedSinceReset[lastCheck.key][2] > now - config.windowMs

\* C24: auth decision.  authenticate succeeds exactly when allowAnonymous is
\* set and no credential is present, or a credential is present and its
\* bearer token is listed in apiKeys or accepted by customValidator; in
\* every other case it fails with code -32003.
C24_AuthDecision ==
    auth.outcome.t # "none"
    => LET present == ~HeaderFalsy(auth.header)
           bearer == /\ present
                     /\ Len(auth.header.words) = 2
                     /\ auth.header.words[1] \in {"Bearer", "bearer", "BEARER"}
           token == << auth.header.words[2] >>
           listed == /\ IsDefined(auth.config.apiKeys)
                     /\ token \in auth.config.apiKeys.items
           accepted == /\ IsDefined(auth.config.customValidator)
                       /\ token \in auth.config.customValidator.accepts
       IN IF \/ auth.config.allowAnonymous /\ ~present
             \/ bearer /\ (listed \/ accepted)
          THEN auth.outcome.t = "return"
          ELSE /\ auth.outcome.t = "throw"
               /\ auth.outcome.error.code = PERMISSION_DENIED

\* C30: retryAfter bound.  Whenever checkLimit rejects a call at time now,
\* retryAfter is ceil((t_oldest + windowMs - now) / 1000) for the oldest
\* admitted timestamp t_oldest of the key that is still inside the window,
\* and 1 <= retryAfter <= ceil(windowMs / 1000).
C30_RetryAfterBound ==
    [][ ( lastCheck'.op = "checkLimit" /\ lastCheck'.outcome.t = "throw" )
        => LET key == lastCheck'.key
               inWindow == {admitted[key][i] : i \in 1..Len(admitted[key])}
                              \cap {t \in 0..now : now - config.windowMs < t}
               retryAfter == lastCheck'.outcome.error.data.retryAfter
           IN /\ retryAfter.t = "number"
              /\ inWindow # {}
              /\ \E oldest \in inWindow :
                    /\ \A t \in inWindow : oldest <= t
                    /\ retryAfter.v = Ceil(oldest + config.windowMs - now, 1000)
              /\ 1 <= retryAfter.v
              /\ retryAfter.v <= Ceil(config.windowMs, 1000)
      ]_vars

\* C31: pending ids keep their wire type.  A response settles, removes and
\* disarms only the pending request whose id equals its own in value and in
\* type: every waiter a response settles has exactly the response's id, and a
\* response with a string id leaves the table, the waiters and the timers of
\* the (numeric) pending requests as they were.
C31_PendingIdsKeepWireType ==
    [][ ( last'.op = "message" /\ IsResponse(last'.message) )
        => ( /\ \A w \in 1..Len(waiters) :
                   waiters'[w] # waiters[w] => waiters[w].id = last'.message.id
             /\ \A i \in 1..Len(pendingRequests) :
                   pendingRequests[i].key # last'.message.id
                   => ( /\ MapHas(pendingRequests', pendingRequests[i].key)
                        /\ pendingRequests[i].value.timeout \in timers' )
             /\ last'.message.id.t = "string"
                => UNCHANGED <<pendingRequests, waiters, timers>> )
      ]_vars

\* C31 witness: request 1 is pending and a response with the string id "1"
\* has just been received
C31_Witness ==
    /\ last.op = "message"
    /\ IsResponse(last.message)
    /\ last.message.id = StrId(1)
    /\ MapHas(pendingRequests, NumId(1))
    /\ Len(waiters) >= 1
    /\ waiters[1].st = "pending"
    /\ 1 \in timers

\* C32: timer and table agree.  In every state the armed deadline timers are
\* exactly the timers of the entries of pendingRequests, one per entry; a
\* timer that fires finds the id of its request still in the table.
C32_TimerAndTableAgree ==
    [][ /\ timers' = {pendingRequests'[i].value.timeout : i \in 1..Len(pendingRequests')}
        /\ \A i, j \in 1..Len(pendingRequests') :
              pendingRequests'[i].value.timeout = pendingRequests'[j].value.timeout
              => i = j
        /\ last'.op = "timeout"
           => ( /\ last'.n \in timers
                /\ MapHas(pendingRequests, waiters[last'.n].id)
                /\ MapGet(pendingRequests, waiters[last'.n].id).value.timeout = last'.n )
      ]_vars

\* C32 witness: of two pending requests the first was resolved by its
\* response, which removed its entry and disarmed its timer; the second
\* keeps both
C32_Witness ==
    /\ Len(waiters) = 2
    /\ last.op = "message"
    /\ last.message.id = NumId(1)
    /\ waiters[1].by = "response"
    /\ ~MapHas(pendingRequests, NumId(1))
    /\ 1 \notin timers
    /\ MapHas(pendingRequests, NumId(2))
    /\ 2 \in timers

C34_CompactionTransparent ==
    [][ /\ lastCheck'.op = "checkLimit" => lastCheck'.outcome = lastCheck'.twin
        /\ lastCheck'.op = "cleanup"
           => LET live(times) == \E i \in 1..Len(times) : times[i] > now - config.windowMs
              IN /\ MapKeys(requests')
                    = {requests[i].key : i \in {j \in 1..Len(requests) : live(requests[j].value)}}
                 /\ \A k \in MapKeys(requests') :
                       MapGet(requests', k).value
                       = SelectSeq(MapGet(requests, k).value,
                                   LAMBDA t : t > now - config.windowMs)
      ]_vars

\* C34 witness: cleanup has deleted the first key, which a later call stored
\* again behind the second, so that the two limiters hold their keys in
\* different orders; the call just made is rejected by both
C34_Witness ==
    /\ lastCheck.op = "checkLimit"
    /\ lastCheck.outcome.t = "throw"
    /\ lastCheck.outcome.error.data.retryAfter = Number(1)
    /\ Len(requests) = 2
    /\ Len(twin) = 2
    /\ requests[1].key = twin[2].key
    /\ requests[2].key = twin[1].key

====
